---- MODULE Spec2Model ----
(***************************************************************************)
(* ToneGenius: the look-ahead click schedulers (metronome, synced          *)
(* metronome instances, clave sequencer, polyrhythm) and the microphone    *)
(* answer gate, as state machines.                                         *)
(*                                                                         *)
(* Time is the audio clock (ctx.currentTime) in whole milliseconds; the    *)
(* arithmetic is exact (the source uses IEEE doubles of seconds).          *)
(* One tile is mounted per behaviour (variable tile); the tiles share no   *)
(* state except window.__metroSync, which the synced metronome instances   *)
(* of one tile share.                                                      *)
(***************************************************************************)
EXTENDS Integers, Sequences, FiniteSets, TLC

VARIABLES
    tile,       \* which module is mounted in this behaviour
    ops,        \* user operations (start, stop, edits) performed so far
    now,        \* ctx.currentTime, in ms
    metro,      \* synced metronome instances: component state and refs
    sync,       \* window.__metroSync: anchor, barLen, ownerId
    obs,        \* per synced instance: the first click of its run (history)
    metronome,  \* the plain metronome: component state and refs
    clave,      \* the clave sequencer: component state and refs
    sink,       \* per stream: what the trigger callback has been handed (history)
    mic,        \* MicAnswer: props, state, refs, pending start() calls, streams
    frame,      \* the latest detection frame and its callbacks (history)
    poly,       \* PolyrhythmModule: state and refs
    pout,       \* the polyrhythm clicks scheduled since the last anchor (history)
    yin,        \* one call of detectPitchHzYIN: its arguments and its outcome
    smooth,     \* the two pitch smoothers fed with the same detected pitches
    keys        \* the instances whose keydown listener has yet to run for the key pressed

vars == <<tile, ops, now, metro, sync, obs, metronome, clave, sink, mic, frame,
          poly, pout, yin, smooth, keys>>

----------------------------------------------------------------------------
(* Bounds of the model *)

MaxTime == 200          \* the audio clock stops advancing here
NumInst == 2            \* synced metronome instances mounted together
MaxOps == 4             \* user operations per behaviour
MaxFrames == 6          \* detection frames processed per behaviour
MaxHoldFrames == 9
MaxSmoothFrames == 3
MaxIdleMs == 20         \* the long metronome run starts this late at most      \* the same, for sessions that complete two holds
PolyMaxTime == 2100     \* the audio clock of a run over a 2-second bar stops here
PolyRunMaxTime == 1000  \* the audio clock of a run over several short bars stops here
PolyDenseMaxTime == 250 \* the audio clock of a run with many events per bar stops here

(* Inputs the handlers are driven with *)
Delays == {20, 100}                 \* ms between two steps of the event loop
Bpms == {150, 300}                  \* tempo inputs
Dens == {16}                        \* time-signature denominators used
Nums == {1, 2}                      \* beats per bar used

(* Program constants *)
TimerId == 1            \* the id window.setTimeout returns, while the timer is pending
ScheduleAheadMs == 120  \* scheduleAhead = 0.12 s
StartOffsetMs == 60     \* ctx.currentTime + 0.06
TimeoutMs == 25         \* window.setTimeout(schedulerTick, 25)
SyncMarginMs == 20      \* nextGlobalDownbeat(ctx.currentTime + 0.02)

None == -1              \* null, for number | null fields
NoOwner == 0            \* ownerId null

Inst == 1..NumInst
PitchInputs == {44255, 45133}       \* pitches detected: A4 + 10 and + 44 cents
SmoothPitches == {11000, 16500, 44000, 44255}   \* detected pitches, hundredths of a Hz
SmoothGaps == {0, 16000, 50000, 200000}         \* microseconds between two frames
IdleDelays == {7, 10}               \* ms passing before the long metronome run
ErrorNames == {"NotAllowedError", "NotFoundError"}     \* rejections of getUserMedia
TargetPcs == {4, 9}                 \* target pitch classes asked for
FrameGaps == {50000, 200000}        \* microseconds between two animation frames
PolyCounts == {2, 3}                \* events per bar used for A and B
PolyBars == {250, 500}              \* bar durations used, ms
PolyDelays == {25, 100}             \* ms between two steps of the event loop
PolyBarDelays == {100, 250}         \* the same, for runs over a 2-second bar
Streams == {"metronome", "clave"}
Groups == {2, 4}                    \* clave subdivisions used (of 2, 3, 4, 6)

----------------------------------------------------------------------------
(* Helpers *)

Max(a, b) == IF a >= b THEN a ELSE b
Last(s) == s[Len(s)]

\* Math.ceil(a / b) for b > 0
CeilDiv(a, b) == -((-a) \div b)

\* seconds per beat, in ms: (60 / bpm) * (4 / sig.den)
Spb(b, d) == 240000 \div (b * d)

----------------------------------------------------------------------------
(* What a stream's trigger callback has been handed (history, not program  *)
(* state).  batch: the events of the latest scheduling call that emitted   *)
(* any; batchAt: the audio time of that call; batchPrev: the last event of *)
(* the same run before the batch; prevMax: the latest timestamp handed     *)
(* over before the batch, over all runs of the stream; count: the events   *)
(* handed over since the run began.                                        *)

OutInit ==
    [batch |-> <<>>, batchAt |-> None, batchPrev |-> None, prevMax |-> None,
     runLast |-> None, runFirst |-> <<>>, maxT |-> None, runPeriod |-> None,
     runCycle |-> None, startNow |-> None, restart |-> FALSE, count |-> 0]

\* a run begins: start() is called at audio time t
OutStart(o, t, period, cycle, isRestart) ==
    [o EXCEPT !.runLast = None, !.runFirst = <<>>, !.runPeriod = period,
              !.runCycle = cycle, !.startNow = t, !.restart = isRestart, !.count = 0]

\* the events B are handed to the trigger callback at audio time t
OutEmit(o, B, t) ==
    IF B = <<>> THEN o
    ELSE [o EXCEPT !.batch = B, !.batchAt = t, !.batchPrev = o.runLast,
                   !.prevMax = o.maxT, !.runLast = Last(B).t, !.count = o.count + Len(B),
                   !.runFirst = IF o.runFirst = <<>> THEN <<B[1]>> ELSE o.runFirst,
                   !.maxT = LET ts == {B[k].t : k \in 1..Len(B)} \cup {o.maxT}
                            IN CHOOSE m \in ts : \A x \in ts : x <= m]

(* Of a synced instance's run: the first click handed over, and the global *)
(* anchor and bar length its start() read.                                 *)

ObsInit ==
    [runFirst |-> None, runFirstIdx |-> None, startAnchor |-> None,
     startBarLen |-> None, restart |-> FALSE]

ObsStart(anchor, barLen, isRestart) ==
    [runFirst |-> None, runFirstIdx |-> None, startAnchor |-> anchor,
     startBarLen |-> barLen, restart |-> isRestart]

ObsEmit(o, B) ==
    IF B = <<>> \/ o.runFirst # None THEN o
    ELSE [o EXCEPT !.runFirst = B[1].t, !.runFirstIdx = B[1].idx]

----------------------------------------------------------------------------
(* The look-ahead loop shared by the metronome variants:                   *)
(*   while (nextTimeRef.current < ctx.currentTime + scheduleAhead) {...}   *)

\* the loop stepping two periods per click
RECURSIVE DrainEveryOther(_, _, _, _, _, _)
DrainEveryOther(nt, b, spb, num, limit, out) ==
    IF nt < limit
    THEN DrainEveryOther(nt + 2 * spb, (b + 1) % num, spb, num, limit,
                         Append(out, [t |-> nt, idx |-> b]))
    ELSE [nextTime |-> nt, beat |-> b, out |-> out]

RECURSIVE Drain(_, _, _, _, _, _)
Drain(nt, b, spb, num, limit, out) ==
    IF nt < limit
    THEN Drain(nt + spb, (b + 1) % num, spb, num, limit,
               Append(out, [t |-> nt, idx |-> b]))
    ELSE [nextTime |-> nt, beat |-> b, out |-> out]

----------------------------------------------------------------------------
(* Synced metronome (the metronome with the global downbeat anchor)        *)

SyncInit == [anchor |-> None, barLen |-> 0, ownerId |-> NoOwner]

MetroInit ==
    [running |-> FALSE, bpm |-> 150, sig |-> [num |-> 2, den |-> 16],
     nextTimeRef |-> 0, beatRef |-> 0, schedulerRef |-> None,
     tickSpb |-> None, tickNum |-> None,
     keyBpm |-> 150, keySig |-> [num |-> 2, den |-> 16]]

\* the [running] effect of an instance: its keydown listener is replaced by
\* onKey of the current render, whose start() has this render's bpm and sig
SyncKeyListenerCurrent(m) == [m EXCEPT !.keyBpm = m.bpm, !.keySig = m.sig]

\* spb of the current render of an instance
MetroSpb(m) == Spb(m.bpm, m.sig.den)

nextGlobalDownbeat(s, ctxTime) ==
    IF s.anchor = None \/ s.barLen <= 0 THEN None
    ELSE s.anchor + CeilDiv(ctxTime - s.anchor, s.barLen) * s.barLen

\* schedulerTick of the render whose spb and sig.num are (spb, num):
\* the instance's refs after the loop and the re-armed timer, and the events
MetroTickResult(m, spb, num, t) ==
    LET r == Drain(m.nextTimeRef, m.beatRef, spb, num, t + ScheduleAheadMs, <<>>)
    IN [m |-> [m EXCEPT !.nextTimeRef = r.nextTime, !.beatRef = r.beat,
                        !.schedulerRef = TimerId,
                        !.tickSpb = spb, !.tickNum = num],
        out |-> r.out]

\* start(setGlobalOwnerIfNone) of instance i's current render
MetroStartAtImmediately(s, t) == t + StartOffsetMs

MetroStartAt(s, t) ==
    IF s.anchor # None /\ s.barLen > 0
    THEN nextGlobalDownbeat(s, t + SyncMarginMs)
    ELSE t + StartOffsetMs

\* start() that never claims the anchor
MetroStartSyncNoClaim(s, i, m, t, setGlobalOwnerIfNone) == s

MetroStartSync(s, i, m, t, setGlobalOwnerIfNone) ==
    IF s.anchor # None /\ s.barLen > 0 THEN s
    ELSE IF setGlobalOwnerIfNone
         THEN [anchor |-> t + StartOffsetMs,
               barLen |-> MetroSpb(m) * m.sig.num, ownerId |-> i]
         ELSE s

MetroStarted(s, m, t) ==
    MetroTickResult([m EXCEPT !.nextTimeRef = MetroStartAt(s, t), !.beatRef = 0,
                              !.running = TRUE],
                    MetroSpb(m), m.sig.num, t)

\* stop(clearGlobalIfOwner)
MetroStopped(m) == [m EXCEPT !.schedulerRef = None, !.running = FALSE]

\* stop() that clears the anchor whoever owns it
MetroStopSyncAnyone(s, i, clearGlobalIfOwner) ==
    IF clearGlobalIfOwner THEN SyncInit ELSE s

MetroStopSync(s, i, clearGlobalIfOwner) ==
    IF clearGlobalIfOwner /\ s.ownerId = i THEN SyncInit ELSE s

\* the timing effect that leaves the bar length of the record as it was
TimingChangedSyncStale(s, i, m) == s

\* the timing effect of a running instance whose timing is now that of m:
\*   if (sync.ownerId === instanceIdRef.current) sync.barLen = spb * sig.num
TimingChangedSync(s, i, m) ==
    IF s.ownerId = i THEN [s EXCEPT !.barLen = MetroSpb(m) * m.sig.num] ELSE s

\* a user operation: counted, at most MaxOps per behaviour
UserOp == ops < MaxOps /\ ops' = ops + 1 /\ keys = <<>>

\* the transport button / start(): a stopped instance starts
SyncStart(i) ==
    /\ tile = "sync"
    /\ UserOp
    /\ ~metro[i].running
    /\ LET r == MetroStarted(sync, metro[i], now)
       IN /\ metro' = [metro EXCEPT ![i] = SyncKeyListenerCurrent(r.m)]
          /\ sync' = MetroStartSync(sync, i, metro[i], now, TRUE)
          /\ obs' = [obs EXCEPT ![i] =
                ObsEmit(ObsStart(sync.anchor, sync.barLen, FALSE), r.out)]
    /\ UNCHANGED <<tile, now, metronome, clave, sink, mic, frame, poly, pout, yin, smooth, keys>>

\* the transport button / stop(): a running instance stops
SyncStop(i) ==
    /\ tile = "sync"
    /\ UserOp
    /\ metro[i].running
    /\ metro' = [metro EXCEPT ![i] = SyncKeyListenerCurrent(MetroStopped(@))]
    /\ sync' = MetroStopSync(sync, i, TRUE)
    /\ obs' = [obs EXCEPT ![i] = ObsInit]
    /\ UNCHANGED <<tile, now, metronome, clave, sink, mic, frame, poly, pout, yin, smooth, keys>>

\* the tile of a running instance is closed: the unmount cleanup calls
\* stop(); a tile opened later in its place has fresh refs
SyncUnmount(i) ==
    /\ tile = "sync"
    /\ UserOp
    /\ metro[i].running
    /\ metro' = [metro EXCEPT ![i] =
            SyncKeyListenerCurrent(
                [MetroStopped(@) EXCEPT !.nextTimeRef = 0, !.beatRef = 0,
                                        !.tickSpb = None, !.tickNum = None])]
    /\ sync' = MetroStopSync(sync, i, TRUE)
    /\ obs' = [obs EXCEPT ![i] = ObsInit]
    /\ UNCHANGED <<tile, now, metronome, clave, sink, mic, frame, poly, pout, yin, smooth, keys>>

\* onKey of instance i for the Space key at audio time t, on the instances,
\* the sync record and the observations st:  running ? stop() : start(),
\* start() being that of the render whose onKey is the listener
SyncKeyToggled(st, i, t) ==
    LET m == st.metro[i]
        mk == [m EXCEPT !.bpm = m.keyBpm, !.sig = m.keySig]
        r == MetroStarted(st.sync, mk, t)
    IN IF m.running
       THEN [metro |-> [st.metro EXCEPT ![i] = SyncKeyListenerCurrent(MetroStopped(m))],
             sync |-> MetroStopSync(st.sync, i, TRUE),
             obs |-> [st.obs EXCEPT ![i] = ObsInit]]
       ELSE [metro |-> [st.metro EXCEPT ![i] =
                            SyncKeyListenerCurrent([r.m EXCEPT !.bpm = m.bpm, !.sig = m.sig])],
             sync |-> MetroStartSync(st.sync, i, mk, t, TRUE),
             obs |-> [st.obs EXCEPT ![i] =
                            ObsEmit(ObsStart(st.sync.anchor, st.sync.barLen, FALSE), r.out)]]

\* the Space key is pressed: every mounted instance has a keydown listener
\* on window; they run one after the other, in the order they were added
SyncKeySpace ==
    /\ tile = "sync"
    /\ UserOp
    /\ keys = <<>>
    /\ keys' = [i \in 1..NumInst |-> i]
    /\ UNCHANGED <<tile, now, metro, sync, obs, metronome, clave, sink, mic, frame, poly, pout,
                   yin, smooth>>

\* the next listener runs
SyncKeyListener ==
    /\ tile = "sync"
    /\ keys # <<>>
    /\ LET st == SyncKeyToggled([metro |-> metro, sync |-> sync, obs |-> obs], Head(keys), now)
       IN metro' = st.metro /\ sync' = st.sync /\ obs' = st.obs
    /\ keys' = Tail(keys)
    /\ UNCHANGED <<tile, ops, now, metronome, clave, sink, mic, frame, poly, pout, yin, smooth>>

\* the pending timer of instance i fires: schedulerTick of the render that armed it
SyncSchedulerTick(i) ==
    /\ tile = "sync"
    /\ keys = <<>>
    /\ metro[i].schedulerRef # None
    /\ LET r == MetroTickResult(metro[i], metro[i].tickSpb, metro[i].tickNum, now)
       IN /\ metro' = [metro EXCEPT ![i] = r.m]
          /\ obs' = [obs EXCEPT ![i] = ObsEmit(@, r.out)]
    /\ UNCHANGED <<tile, ops, now, sync, metronome, clave, sink, mic, frame, poly, pout, yin, smooth, keys>>

\* tempo or time signature is edited; the [spb, sig.num] effect of the new
\* render runs when either changed while running:
\*   owner: sync.barLen = spb * sig.num;  stop(false);  start(false)
SyncSetTiming(i, b, n, d) ==
    /\ tile = "sync"
    /\ UserOp
    /\ <<b, n, d>> # <<metro[i].bpm, metro[i].sig.num, metro[i].sig.den>>
    /\ LET m1 == [metro[i] EXCEPT !.bpm = b, !.sig = [num |-> n, den |-> d]]
           changed == MetroSpb(m1) # MetroSpb(metro[i]) \/ n # metro[i].sig.num
       IN IF metro[i].running /\ changed
          THEN LET s1 == TimingChangedSync(sync, i, m1)
                   s2 == MetroStopSync(s1, i, FALSE)
                   r == MetroStarted(s2, MetroStopped(m1), now)
               IN /\ metro' = [metro EXCEPT ![i] = r.m]
                  /\ sync' = MetroStartSync(s2, i, m1, now, FALSE)
                  /\ obs' = [obs EXCEPT ![i] =
                        ObsEmit(ObsStart(s2.anchor, s2.barLen, TRUE), r.out)]
          ELSE /\ metro' = [metro EXCEPT ![i] = m1]
               /\ UNCHANGED <<sync, obs>>
    /\ UNCHANGED <<tile, now, metronome, clave, sink, mic, frame, poly, pout, yin, smooth, keys>>

\* the audio clock advances between two steps of the event loop (the
\* microphone tile reads no audio clock: its frames carry their own gaps)
Advance(d) ==
    /\ tile \notin {"mic", "polybar", "polyrun", "polydense", "yin", "smooth", "metrobar"}
    /\ keys = <<>>
    /\ now + d <= MaxTime
    /\ now' = now + d
    /\ UNCHANGED <<tile, ops, metro, sync, obs, metronome, clave, sink, mic, frame, poly, pout, yin, smooth, keys>>

----------------------------------------------------------------------------
(* Plain metronome (no global anchor) *)

MetronomeInit ==
    [running |-> FALSE, bpm |-> 150, sig |-> [num |-> 2, den |-> 16],
     nextTimeRef |-> 0, beatRef |-> 0, schedulerRef |-> None,
     tickSpb |-> None, tickNum |-> None,
     keySpb |-> Spb(150, 16), keyNum |-> 2]

\* the [running] effect: the keydown listener is replaced by onKey of the
\* current render, whose start() has this render's spb and sig.num
KeyListenerCurrent(m) == [m EXCEPT !.keySpb = MetroSpb(m), !.keyNum = m.sig.num]

\* schedulerTick of the render whose spb and sig.num are (spb, num)
MetronomeTickResultFromClock(m, spb, num, t) ==
    LET r == Drain(Max(m.nextTimeRef, t), m.beatRef, spb, num, t + ScheduleAheadMs, <<>>)
    IN [m |-> [m EXCEPT !.nextTimeRef = r.nextTime, !.beatRef = r.beat,
                        !.schedulerRef = TimerId,
                        !.tickSpb = spb, !.tickNum = num],
        out |-> r.out]

MetronomeTickResult(m, spb, num, t) ==
    LET r == Drain(m.nextTimeRef, m.beatRef, spb, num, t + ScheduleAheadMs, <<>>)
    IN [m |-> [m EXCEPT !.nextTimeRef = r.nextTime, !.beatRef = r.beat,
                        !.schedulerRef = TimerId,
                        !.tickSpb = spb, !.tickNum = num],
        out |-> r.out]

\* start() of the current render, at audio time t
MetronomeStartedKeepBeat(m, t) ==
    MetronomeTickResult([m EXCEPT !.nextTimeRef = t + StartOffsetMs, !.running = TRUE],
                        MetroSpb(m), m.sig.num, t)

MetronomeStarted(m, t) ==
    MetronomeTickResult([m EXCEPT !.nextTimeRef = t + StartOffsetMs, !.beatRef = 0,
                                  !.running = TRUE],
                        MetroSpb(m), m.sig.num, t)

\* stop()
\* stop() that leaves the pending timer armed
MetronomeStoppedKeepTimer(m) == [m EXCEPT !.running = FALSE]

MetronomeStopped(m) == [m EXCEPT !.schedulerRef = None, !.running = FALSE]

MetronomeStart ==
    /\ tile \in {"metronome", "metrobar"}
    /\ UserOp
    /\ ~metronome.running
    /\ LET r == MetronomeStarted(metronome, now)
       IN /\ metronome' = KeyListenerCurrent(r.m)
          /\ sink' = [sink EXCEPT !["metronome"] =
                OutEmit(OutStart(@, now, MetroSpb(metronome), metronome.sig.num, FALSE),
                        r.out, now)]
    /\ UNCHANGED <<tile, now, metro, sync, obs, clave, mic, frame, poly, pout, yin, smooth, keys>>

MetronomeStop ==
    /\ tile = "metronome"
    /\ UserOp
    /\ metronome.running
    /\ metronome' = KeyListenerCurrent(MetronomeStopped(metronome))
    /\ UNCHANGED <<tile, now, metro, sync, obs, clave, sink, mic, frame, poly, pout, yin, smooth, keys>>

\* start() of the render whose onKey is the keydown listener
MetronomeStartedByKey(m, t) ==
    MetronomeTickResult([m EXCEPT !.nextTimeRef = t + StartOffsetMs, !.beatRef = 0,
                                  !.running = TRUE],
                        m.keySpb, m.keyNum, t)

\* the Space key while stopped: start() of the listener's render
MetronomeKeySpace ==
    /\ tile = "metronome"
    /\ UserOp
    /\ ~metronome.running
    /\ LET r == MetronomeStartedByKey(metronome, now)
       IN /\ metronome' = KeyListenerCurrent(r.m)
          /\ sink' = [sink EXCEPT !["metronome"] =
                OutEmit(OutStart(@, now, r.m.tickSpb, r.m.tickNum, FALSE), r.out, now)]
    /\ UNCHANGED <<tile, now, metro, sync, obs, clave, mic, frame, poly, pout, yin, smooth, keys>>

\* the pending timer fires: schedulerTick of the render that armed it
MetronomeSchedulerTick ==
    /\ tile = "metronome"
    /\ metronome.schedulerRef # None
    /\ LET r == MetronomeTickResult(metronome, metronome.tickSpb, metronome.tickNum, now)
       IN /\ metronome' = r.m
          /\ sink' = [sink EXCEPT !["metronome"] = OutEmit(@, r.out, now)]
    /\ UNCHANGED <<tile, ops, now, metro, sync, obs, clave, mic, frame, poly, pout, yin, smooth, keys>>

\* the audio time a long run of the metronome lasts, ms
LongRunMs == 10000

\* the timer armed by schedulerTick fires on time, 25 ms after it was set
MetronomeTimerOnTime ==
    /\ tile = "metrobar"
    /\ metronome.schedulerRef # None
    /\ now + TimeoutMs <= LongRunMs + MaxIdleMs
    /\ now' = now + TimeoutMs
    /\ LET r == MetronomeTickResult(metronome, metronome.tickSpb, metronome.tickNum,
                                    now + TimeoutMs)
       IN /\ metronome' = r.m
          /\ sink' = [sink EXCEPT !["metronome"] = OutEmit(@, r.out, now + TimeoutMs)]
    /\ UNCHANGED <<tile, ops, metro, sync, obs, clave, mic, frame, poly, pout, yin, smooth, keys>>

\* time passes while the metronome is stopped
MetronomeIdle(d) ==
    /\ tile = "metrobar"
    /\ ~metronome.running
    /\ now + d <= MaxIdleMs
    /\ now' = now + d
    /\ UNCHANGED <<tile, ops, metro, sync, obs, metronome, clave, sink, mic, frame, poly, pout,
                   yin, smooth, keys>>

\* tempo or time signature is edited; the [spb, sig.num] effect of the new
\* render runs when either changed while running:  stop(); start()
MetronomeSetTimingInPlace(b, n, d) ==
    /\ tile = "metronome"
    /\ UserOp
    /\ <<b, n, d>> # <<metronome.bpm, metronome.sig.num, metronome.sig.den>>
    /\ LET m1 == [metronome EXCEPT !.bpm = b, !.sig = [num |-> n, den |-> d]]
       IN metronome' = IF metronome.running
                       THEN [m1 EXCEPT !.tickSpb = MetroSpb(m1), !.tickNum = n]
                       ELSE m1
    /\ UNCHANGED <<tile, now, metro, sync, obs, clave, sink, mic, frame, poly, pout, yin, smooth, keys>>

MetronomeSetTiming(b, n, d) ==
    /\ tile = "metronome"
    /\ UserOp
    /\ <<b, n, d>> # <<metronome.bpm, metronome.sig.num, metronome.sig.den>>
    /\ LET m1 == [metronome EXCEPT !.bpm = b, !.sig = [num |-> n, den |-> d]]
           changed == MetroSpb(m1) # MetroSpb(metronome) \/ n # metronome.sig.num
       IN IF metronome.running /\ changed
          THEN LET r == MetronomeStarted(MetronomeStopped(m1), now)
               IN /\ metronome' = r.m
                  /\ sink' = [sink EXCEPT !["metronome"] =
                        OutEmit(OutStart(@, now, MetroSpb(m1), n, TRUE), r.out, now)]
          ELSE /\ metronome' = m1
               /\ UNCHANGED sink
    /\ UNCHANGED <<tile, now, metro, sync, obs, clave, mic, frame, poly, pout, yin, smooth, keys>>

----------------------------------------------------------------------------
(* Clave sequencer: 12 pulses per bar *)

PulsesPerBar == 12

Pulses == 0..(PulsesPerBar - 1)

\* the presets offered (of five) as sets of switched-on pulses
PresetNames == {"Son (3-2)", "Empty"}

PRESETS(name) ==
    [p \in Pulses |-> IF name = "Son (3-2)" THEN p \in {0, 3, 7, 9} ELSE FALSE]

\* the steps the model toggles (of 0..11)
ToggleSteps == {1, 3}

\* steps: the pattern state; tickSteps: the pattern seen by the running
\* scheduleAhead closure; hits: for each pulse of the last scheduleAhead call,
\* whether claveSound was called and whether the step was switched on
ClaveInit ==
    [running |-> FALSE, bpm |-> 150, group |-> 4,
     nextPulseTimeRef |-> 0, pulseIndexRef |-> 0, schedulerRef |-> None,
     tickSpp |-> None,
     steps |-> PRESETS("Son (3-2)"), tickSteps |-> PRESETS("Son (3-2)"), hits |-> <<>>]

\* the pulses of one scheduleAhead call: claveSound is called when the
\* closure's steps[p] is true
ClaveHits(out, tickSteps, steps) ==
    [k \in 1..Len(out) |-> [p |-> out[k].idx, t |-> out[k].t, tick |-> TRUE,
                            hit |-> tickSteps[out[k].idx], on |-> steps[out[k].idx]]]

\* seconds per pulse, in ms: (60 / bpm) / group
ClaveSpp(c) == 60000 \div (c.bpm * c.group)

\* scheduleAhead of the render whose spp is given
ClaveScheduleAheadResult(c, spp, t) ==
    LET r == Drain(c.nextPulseTimeRef, c.pulseIndexRef % PulsesPerBar, spp,
                   PulsesPerBar, t + ScheduleAheadMs, <<>>)
    IN [c |-> [c EXCEPT !.nextPulseTimeRef = r.nextTime, !.pulseIndexRef = r.beat,
                        !.schedulerRef = TimerId, !.tickSpp = spp,
                        !.hits = ClaveHits(r.out, c.tickSteps, c.steps) \o <<>>],
        out |-> r.out]

ClaveStarted(c, t) ==
    ClaveScheduleAheadResult([c EXCEPT !.pulseIndexRef = 0,
                                       !.nextPulseTimeRef = t + StartOffsetMs,
                                       !.tickSteps = c.steps,
                                       !.running = TRUE],
                             ClaveSpp(c), t)

ClaveStopped(c) == [c EXCEPT !.schedulerRef = None, !.running = FALSE]

ClaveStart ==
    /\ tile = "clave"
    /\ UserOp
    /\ ~clave.running
    /\ LET r == ClaveStarted(clave, now)
       IN /\ clave' = r.c
          /\ sink' = [sink EXCEPT !["clave"] =
                OutEmit(OutStart(@, now, ClaveSpp(clave), PulsesPerBar, FALSE),
                        r.out, now)]
    /\ UNCHANGED <<tile, now, metro, sync, obs, metronome, mic, frame, poly, pout, yin, smooth, keys>>

ClaveStop ==
    /\ tile = "clave"
    /\ UserOp
    /\ clave.running
    /\ clave' = ClaveStopped(clave)
    /\ UNCHANGED <<tile, now, metro, sync, obs, metronome, sink, mic, frame, poly, pout, yin, smooth, keys>>

ClaveScheduleAhead ==
    /\ tile = "clave"
    /\ clave.schedulerRef # None
    /\ LET r == ClaveScheduleAheadResult(clave, clave.tickSpp, now)
       IN /\ clave' = r.c
          /\ sink' = [sink EXCEPT !["clave"] = OutEmit(@, r.out, now)]
    /\ UNCHANGED <<tile, ops, now, metro, sync, obs, metronome, mic, frame, poly, pout, yin, smooth, keys>>

\* tempo or subdivision is edited; the [spp, group] effect of the new render
\* runs when either changed while running:  stop(); start()
ClaveSetTiming(b, g) ==
    /\ tile = "clave"
    /\ UserOp
    /\ <<b, g>> # <<clave.bpm, clave.group>>
    /\ LET c1 == [clave EXCEPT !.bpm = b, !.group = g]
           changed == ClaveSpp(c1) # ClaveSpp(clave) \/ g # clave.group
       IN IF clave.running /\ changed
          THEN LET r == ClaveStarted(ClaveStopped(c1), now)
               IN /\ clave' = r.c
                  /\ sink' = [sink EXCEPT !["clave"] =
                        OutEmit(OutStart(@, now, ClaveSpp(c1), PulsesPerBar, TRUE),
                                r.out, now)]
          ELSE /\ clave' = c1
               /\ UNCHANGED sink
    /\ UNCHANGED <<tile, now, metro, sync, obs, metronome, mic, frame, poly, pout, yin, smooth, keys>>

\* a step is clicked: the pattern of the next render has step i flipped; the
\* pending scheduleAhead timer is the closure of the render that called start()
ClaveToggleStep(i) ==
    /\ tile = "clave"
    /\ UserOp
    /\ clave' = [clave EXCEPT !.steps = [clave.steps EXCEPT ![i] = ~clave.steps[i]]]
    /\ UNCHANGED <<tile, now, metro, sync, obs, metronome, sink, mic, frame, poly, pout, yin, smooth, keys>>

\* a preset button is clicked:  setSteps(PRESETS[name].slice())
ClaveLoadPreset(name) ==
    /\ tile = "clave"
    /\ UserOp
    /\ clave.steps # PRESETS(name)
    /\ clave' = [clave EXCEPT !.steps = PRESETS(name)]
    /\ UNCHANGED <<tile, now, metro, sync, obs, metronome, sink, mic, frame, poly, pout, yin, smooth, keys>>

----------------------------------------------------------------------------
(* MicAnswer: the microphone answer gate.                                  *)
(* Times of this tile are in microseconds (dt has a floor of 0.001 ms).    *)
(* The detector's pitch is in hundredths of a Hz; None is a frame without  *)
(* a valid pitch.  Cents are whole cents of 100 * freqToMidi(hzSmooth).    *)
(* A stream, the analyser on it and the frame loop its start() begins      *)
(* carry the same id, the ordinal of the start() call that opened it.      *)

HOLD_MS == 500
CENTS_TOL == 25
HYSTERESIS_EXTRA_CENTS == 7
DtCeilMs == 150
DropoutMs == 180
LowNoteCents == 4789    \* hzSmooth < 130, as a MIDI number in cents

HoldUs == HOLD_MS * 1000
DropoutUs == DropoutMs * 1000
LongAgo == DropoutUs + 1            \* lastPitchSeenRef farther back than the grace period

Abs(x) == IF x < 0 THEN -x ELSE x

\* Math.round(a / b) for b > 0: halves round up
RoundDiv(a, b) == (2 * a + b) \div (2 * b)

\* the instance of pitch class pc in the octave at or below mc
nearestMidiForPcBelow(mc, pc) == 100 * pc + 1200 * ((mc - 100 * pc) \div 1200)

\* nearest MIDI note (in cents) of pitch class pc to the MIDI number mc (in cents)
nearestMidiForPc(mc, pc) == 100 * pc + 1200 * RoundDiv(mc - 100 * pc, 1200)

\* 1200 * log2(hzSmooth / midiToFreq(candidateMidi))
CentsRaw(mc, pc) == mc - nearestMidiForPc(mc, pc)

\* a sorted permutation of the sequence a
RECURSIVE SortedSeq(_)
SortedSeq(a) ==
    IF a = <<>> THEN <<>>
    ELSE LET i == CHOOSE i \in 1..Len(a) : \A j \in 1..Len(a) : a[i] <= a[j]
         IN <<a[i]>> \o SortedSeq([k \in 1..(Len(a) - 1) |-> IF k < i THEN a[k] ELSE a[k + 1]])

\* twice median(a): the median of an even-length window is a mean of two
median2(a) ==
    IF a = <<>> THEN 0
    ELSE LET sorted == SortedSeq(a)
             m == Len(a) \div 2
         IN IF Len(a) % 2 = 1 THEN 2 * sorted[m + 1] ELSE sorted[m] + sorted[m + 1]

\* win.push(centsRaw); if (win.length > maxWin) win.shift()
PushWindow(win, c, mc) ==
    LET maxWin == IF mc < LowNoteCents THEN 11 ELSE 7
        w == Append(win, c)
    IN IF Len(w) > maxWin THEN Tail(w) ELSE w

\* the hold logic of a frame with a valid pitch: twice the median med2, hold
\* timer held; the new hold timer and whether onCorrect is called
GateStepStrict(held, med2, dt) ==
    IF Abs(med2) <= 2 * CENTS_TOL
    THEN IF held + dt > HoldUs THEN [held |-> 0, correct |-> TRUE]
         ELSE [held |-> held + dt, correct |-> FALSE]
    ELSE IF Abs(med2) > 2 * (CENTS_TOL + HYSTERESIS_EXTRA_CENTS)
         THEN [held |-> 0, correct |-> FALSE]
         ELSE [held |-> held, correct |-> FALSE]

GateStepNoHysteresis(held, med2, dt) ==
    IF Abs(med2) <= 2 * CENTS_TOL
    THEN IF held + dt >= HoldUs THEN [held |-> 0, correct |-> TRUE]
         ELSE [held |-> held + dt, correct |-> FALSE]
    ELSE [held |-> 0, correct |-> FALSE]

GateStepWide(held, med2, dt) ==
    IF Abs(med2) <= 2 * (CENTS_TOL + HYSTERESIS_EXTRA_CENTS)
    THEN IF held + dt >= HoldUs THEN [held |-> 0, correct |-> TRUE]
         ELSE [held |-> held + dt, correct |-> FALSE]
    ELSE [held |-> 0, correct |-> FALSE]

\* a gate that calls onCorrect and keeps counting
GateStepNoRestart(held, med2, dt) ==
    IF Abs(med2) <= 2 * CENTS_TOL
    THEN [held |-> held + dt, correct |-> held + dt >= HoldUs]
    ELSE IF Abs(med2) > 2 * (CENTS_TOL + HYSTERESIS_EXTRA_CENTS)
         THEN [held |-> 0, correct |-> FALSE]
         ELSE [held |-> held, correct |-> FALSE]

GateStep(held, med2, dt) ==
    IF Abs(med2) <= 2 * CENTS_TOL
    THEN IF held + dt >= HoldUs THEN [held |-> 0, correct |-> TRUE]
         ELSE [held |-> held + dt, correct |-> FALSE]
    ELSE IF Abs(med2) > 2 * (CENTS_TOL + HYSTERESIS_EXTRA_CENTS)
         THEN [held |-> 0, correct |-> FALSE]
         ELSE [held |-> held, correct |-> FALSE]

\* dt of a frame gap microseconds after lastTsRef: Math.min(150, Math.max(0.001, gap))
\* the frame interval without the ceiling
FrameDtUnclamped(gap) == IF gap < 1 THEN 1 ELSE gap

FrameDt(gap) == IF gap < 1 THEN 1 ELSE IF gap > DtCeilMs * 1000 THEN DtCeilMs * 1000 ELSE gap

(* The One-Euro filter, in fixed point: frequencies in hundredths of a Hz, *)
(* rates in hundredths of a Hz per second, cutoffs in thousandths of a Hz, *)
(* dt in whole milliseconds (0 for the 0.001 ms floor).                    *)

MinCutMilliHz == 1200   \* minCut = 1.2
DCutMilliHz == 1500     \* dcut = 1.5
BetaInverse == 100      \* beta = 0.01

\* new OneEuro(...): xPrev = dxPrev = null
EuroInit == [xPrev |-> None, dxPrev |-> None]

\* alpha(cut) = 1 / (1 + tau / te) = q / (1 + q) with q = 2 * PI * cut * dt;
\* q in thousandths, 2 * PI taken as 710 / 113
EuroQ(cutMilliHz, dtMs) == (cutMilliHz * dtMs * 710) \div 113000

\* a * x + (1 - a) * prev for a = q / (1 + q)
EuroBlend(x, prev, q) == prev + ((x - prev) * q) \div (1000 + q)

\* filter(x, dt): the output xHat and the filter afterwards
OneEuroFilter(e, x, dtUs) ==
    LET dtMs == dtUs \div 1000
        dx == IF e.xPrev = None THEN 0
              ELSE ((x - e.xPrev) * 1000) \div (IF dtMs = 0 THEN 1 ELSE dtMs)
        dxHat == IF e.dxPrev = None THEN dx
                 ELSE EuroBlend(dx, e.dxPrev, EuroQ(DCutMilliHz, dtMs))
        cut == MinCutMilliHz + (Abs(dxHat) * 10) \div BetaInverse
        xHat == IF e.xPrev = None THEN x
                ELSE EuroBlend(x, e.xPrev, EuroQ(cut, dtMs))
    IN [x |-> xHat, e |-> [xPrev |-> xHat, dxPrev |-> dxHat]]

\* the binary digits of log2(y / 16384) for 16384 <= y < 32768, by repeated
\* squaring: the first `bits` digits as a number
RECURSIVE Log2Frac(_, _, _)
Log2Frac(y, bits, acc) ==
    IF bits = 0 THEN acc
    ELSE LET sq == (y * y) \div 16384
         IN IF sq >= 32768 THEN Log2Frac(sq \div 2, bits - 1, 2 * acc + 1)
            ELSE Log2Frac(sq, bits - 1, 2 * acc)

\* 100 * freqToMidi(hz) = 6900 + 1200 * log2(hz / 440), to within a cent,
\* for hz in hundredths of a Hz
RECURSIVE freqToMidiCents(_, _)
freqToMidiCents(h, octave) ==
    IF h >= 88000 THEN freqToMidiCents(h \div 2, octave + 1)
    ELSE IF h < 44000 THEN freqToMidiCents(h * 2, octave - 1)
    ELSE 6900 + 1200 * octave
            + (1200 * Log2Frac((h * 16384) \div 44000, 12, 0) + 2048) \div 4096

ReportEveryMs == 60
ReportEveryUs == ReportEveryMs * 1000

MicInit ==
    [enabled |-> FALSE, suspend |-> FALSE, targetPc |-> 9,
     state |-> "idle", analyserRef |-> None, cleanupRef |-> None, rafRef |-> None,
     heldMsRef |-> 0, centsMedianRef |-> <<>>, lastPitchSeenAgo |-> LongAgo,
     lastReportAgo |-> ReportEveryUs, euroRef |-> EuroInit,
     pending |-> <<>>, streams |-> {}, loops |-> {}, opened |-> 0, tickPc |-> <<>>,
     lastError |-> ""]

FrameInit ==
    [processed |-> FALSE, valid |-> FALSE, med2 |-> 0, dt |-> 0, before |-> 0,
     after |-> 0, onCorrect |-> FALSE, inRange |-> FALSE, active |-> FALSE,
     allInTol |-> FALSE, count |-> 0, ago |-> LongAgo, hzRaw |-> None,
     hzSmooth |-> None, onPitch |-> "none", acc |-> 0, corrects |-> 0, pc |-> None,
     midiFloat |-> None, candidateMidi |-> None, centsRaw |-> None]

\* a grace period of no length
DropoutAgoNoGrace(m, gap) == LongAgo

\* time since the last valid pitch at a frame without one, gap after the
\* previous frame (all times beyond the grace period count alike)
DropoutAgo(m, gap) ==
    IF m.lastPitchSeenAgo + gap > DropoutUs THEN LongAgo ELSE m.lastPitchSeenAgo + gap

\* now - lastReportRef.current at a frame, gap after the previous frame (all
\* times from reportEvery on count alike)
ReportAgo(m, gap) ==
    IF m.lastReportAgo + gap >= ReportEveryUs THEN ReportEveryUs ELSE m.lastReportAgo + gap

\* the body of tick() after `if (!an) return`, for the closure whose
\* targetPc is pc, with detectPitchHzYIN returning hzRaw: the refs afterwards
MicTick(m, gap, hzRaw, pc) ==
    LET m1 == [m EXCEPT !.lastReportAgo =
                    IF ReportAgo(m, gap) >= ReportEveryUs THEN 0 ELSE ReportAgo(m, gap)]
    IN IF hzRaw # None
       THEN LET sm == OneEuroFilter(m.euroRef, hzRaw, FrameDt(gap))
                mc == freqToMidiCents(sm.x, 0)
                win == PushWindow(m.centsMedianRef, CentsRaw(mc, pc), mc)
                g == GateStep(m.heldMsRef, median2(win), FrameDt(gap))
            IN [m1 EXCEPT !.lastPitchSeenAgo = 0, !.euroRef = sm.e,
                          !.centsMedianRef = win, !.heldMsRef = g.held]
       ELSE IF DropoutAgo(m, gap) > DropoutUs
            THEN [m1 EXCEPT !.lastPitchSeenAgo = LongAgo, !.centsMedianRef = <<>>,
                            !.heldMsRef = 0]
            ELSE [m1 EXCEPT !.lastPitchSeenAgo = DropoutAgo(m, gap)]

\* what the frame showed and which callbacks it made
FrameOf(m, gap, hzRaw, pc, f) ==
    LET sm == OneEuroFilter(m.euroRef, hzRaw, FrameDt(gap))
        mc == freqToMidiCents(sm.x, 0)
        win == PushWindow(m.centsMedianRef, CentsRaw(mc, pc), mc)
        med2 == IF hzRaw # None THEN median2(win) ELSE 0
        g == GateStep(m.heldMsRef, med2, FrameDt(gap))
    IN [processed |-> TRUE, valid |-> hzRaw # None, med2 |-> med2,
        dt |-> FrameDt(gap), before |-> m.heldMsRef,
        after |-> MicTick(m, gap, hzRaw, pc).heldMsRef,
        onCorrect |-> hzRaw # None /\ g.correct,
        inRange |-> hzRaw # None /\ Abs(med2) <= 2 * CENTS_TOL,
        active |-> m.enabled /\ ~m.suspend,
        allInTol |-> f.allInTol /\ hzRaw # None /\ Abs(med2) <= 2 * CENTS_TOL,
        count |-> f.count + 1,
        ago |-> IF hzRaw # None THEN 0
                ELSE IF f.ago + gap > DropoutUs THEN LongAgo ELSE f.ago + gap,
        hzRaw |-> hzRaw,
        hzSmooth |-> IF hzRaw # None THEN sm.x ELSE None,
        onPitch |-> IF ReportAgo(m, gap) < ReportEveryUs THEN "none"
                    ELSE IF hzRaw # None THEN "hz" ELSE "null",
        acc |-> LET base == IF f.onCorrect THEN 0 ELSE f.acc
                IN IF hzRaw # None /\ Abs(med2) <= 2 * CENTS_TOL
                   THEN (IF base + FrameDt(gap) > HoldUs THEN HoldUs
                         ELSE base + FrameDt(gap))
                   ELSE base,
        corrects |-> IF hzRaw # None /\ g.correct THEN f.corrects + 1 ELSE f.corrects,
        pc |-> pc,
        midiFloat |-> IF hzRaw # None THEN mc ELSE None,
        candidateMidi |-> IF hzRaw # None THEN nearestMidiForPc(mc, pc) ELSE None,
        centsRaw |-> IF hzRaw # None THEN CentsRaw(mc, pc) ELSE None]

\* stop()
MicStopped(m) ==
    [m EXCEPT !.loops = IF m.rafRef # None THEN m.loops \ {m.rafRef} ELSE m.loops,
              !.rafRef = None,
              !.streams = IF m.cleanupRef # None THEN m.streams \ {m.cleanupRef}
                          ELSE m.streams,
              !.analyserRef = None, !.state = "idle",
              !.heldMsRef = 0, !.centsMedianRef = <<>>]

\* the [enabled, suspend] effect: the caller changes enabled or suspend; the
\* previous effect's cleanup (stop, when that effect had started) runs, then
\* the effect: stop() when not enabled or suspended, else start(), which
\* waits in startMicAnalyser
MicSetProps(e, su) ==
    /\ tile = "mic"
    /\ UserOp
    /\ <<e, su>> # <<mic.enabled, mic.suspend>>
    /\ LET wasActive == mic.enabled /\ ~mic.suspend
           m1 == IF wasActive THEN MicStopped(mic) ELSE mic
           m2 == [m1 EXCEPT !.enabled = e, !.suspend = su]
       IN mic' = IF ~e \/ su THEN MicStopped(m2)
                 ELSE [m2 EXCEPT !.pending = Append(@, m2.targetPc)]
    /\ UNCHANGED <<tile, now, metro, sync, obs, metronome, clave, sink, frame, poly, pout, yin, smooth, keys>>

\* getUserMedia of the oldest waiting start() resolves: the stream is open,
\* start() continues after its await and runs the first tick()
MicStartResolved ==
    /\ tile = "mic"
    /\ mic.pending # <<>>
    /\ LET id == mic.opened + 1
           pc == Head(mic.pending)
           m1 == [mic EXCEPT !.pending = Tail(@), !.opened = id,
                             !.streams = @ \cup {id},
                             !.analyserRef = id, !.cleanupRef = id,
                             !.state = "listening", !.heldMsRef = 0,
                             !.lastPitchSeenAgo = LongAgo, !.centsMedianRef = <<>>,
                             !.lastReportAgo = ReportEveryUs, !.euroRef = EuroInit,
                             !.tickPc = Append(@, pc)]
       IN \E pitch \in PitchInputs \cup {None} :
            /\ mic' = [MicTick(m1, 0, pitch, pc) EXCEPT
                            !.loops = @ \cup {id}, !.rafRef = id]
            /\ frame' = FrameOf(m1, 0, pitch, pc,
                                [frame EXCEPT !.allInTol = TRUE, !.ago = LongAgo,
                                              !.acc = 0, !.onCorrect = FALSE,
                                              !.corrects = 0])
    /\ UNCHANGED <<tile, ops, now, metro, sync, obs, metronome, clave, sink, poly, pout, yin, smooth, keys>>

\* the names whose lower case contains "notallowed" or "denied"
DeniedNames == {"NotAllowedError", "PermissionDeniedError"}

\* a rejection handler that calls start() again
MicRejectedRetry(m, name) ==
    [m EXCEPT !.pending = Append(Tail(@), m.targetPc), !.lastError = name,
              !.state = IF name \in DeniedNames THEN "denied" ELSE "error"]

\* the catch handler of the effect, for the oldest waiting start()
MicRejected(m, name) ==
    [m EXCEPT !.pending = Tail(@), !.lastError = name,
              !.state = IF name \in DeniedNames THEN "denied" ELSE "error"]

\* getUserMedia of the oldest waiting start() rejects with the error name:
\* start() throws at its await, the catch handler sets the state and calls
\* onPitch(null)
MicStartRejected(name) ==
    /\ tile = "mic"
    /\ mic.pending # <<>>
    /\ mic' = MicRejected(mic, name)
    /\ frame' = [frame EXCEPT !.onPitch = "null"]
    /\ UNCHANGED <<tile, ops, now, metro, sync, obs, metronome, clave, sink, poly, pout, yin, smooth, keys>>

\* the caller supplies another target pitch class (the next question): a new
\* render; no effect of the component depends on targetPc
MicSetTarget(pc) ==
    /\ tile = "mic"
    /\ UserOp
    /\ pc # mic.targetPc
    /\ mic' = [mic EXCEPT !.targetPc = pc]
    /\ UNCHANGED <<tile, now, metro, sync, obs, metronome, clave, sink, frame, poly, pout, yin, smooth, keys>>

\* the animation frame requested by loop id fires, gap microseconds after the
\* previous frame: tick() of the render whose start() began the loop
MicFrameUpTo(id, gap, pitch, maxFrames) ==
    /\ tile = "mic"
    /\ id \in mic.loops
    /\ IF mic.analyserRef = None
       THEN /\ mic' = [mic EXCEPT !.loops = @ \ {id}]
            /\ UNCHANGED frame
       ELSE /\ frame.count < maxFrames
            /\ mic' = [MicTick(mic, gap, pitch, mic.tickPc[id]) EXCEPT !.rafRef = id]
            /\ frame' = FrameOf(mic, gap, pitch, mic.tickPc[id], frame)
    /\ UNCHANGED <<tile, ops, now, metro, sync, obs, metronome, clave, sink, poly, pout, yin, smooth, keys>>

MicFrame(id, gap, pitch) == MicFrameUpTo(id, gap, pitch, MaxFrames)

\* the same in a session long enough to complete two holds
MicHoldFrame(id, gap, pitch) == MicFrameUpTo(id, gap, pitch, MaxHoldFrames)

----------------------------------------------------------------------------
(* PolyrhythmModule: two click streams, A and B events per bar, from one   *)
(* anchor.  Event k of a stream with n events per bar is at                *)
(* anchor + k * bar / n; times are compared exactly, multiplied by n.      *)

LOOKAHEAD_MS == 25
ScheduleAheadPolyMs == 150
LateToleranceMs == 10
CoincideMs == 8

PolyInit ==
    [playing |-> FALSE, clicks |-> TRUE, aCount |-> 2, bCount |-> 3, barMs |-> 250,
     anchorAudioRef |-> 0, nextIndexARef |-> 0, nextIndexBRef |-> 0,
     schedTimerRef |-> None, timerAt |-> 0]

PoutInit == [A |-> <<>>, B |-> <<>>, nominal |-> TRUE]

\* coincide with a tolerance of a quarter of a second
CoincideLoose(k, n, m, bar) ==
    bar * Abs(RoundDiv(k * m, n) * n - k * m) < 250 * n * m

\* coincide of event k of a stream with n events per bar against the stream
\* with m events per bar:
\*   Math.abs(base + Math.round((tEvent - base) / mStep) * mStep - tEvent) < 0.008
Coincide(k, n, m, bar) ==
    bar * Abs(RoundDiv(k * m, n) * n - k * m) < CoincideMs * n * m

\* one while (true) loop of tick(), from index k, for the stream with n
\* events per bar against the one with m: the index afterwards and the
\* clicks scheduled
RECURSIVE PolyDrain(_, _, _, _, _, _, _)
PolyDrain(k, n, m, bar, base, t, out) ==
    IF k * bar < (t - LateToleranceMs - base) * n
    THEN PolyDrain(k + 1, n, m, bar, base, t, out)
    ELSE IF k * bar > (t + ScheduleAheadPolyMs - base) * n
         THEN [next |-> k, out |-> out]
         ELSE PolyDrain(k + 1, n, m, bar, base, t,
                        Append(out, [k |-> k, accent |-> Coincide(k, n, m, bar)]))

\* "roll indices occasionally"
PolyRolled(idx, n, p, t) ==
    LET big == IF p.aCount > p.bCount THEN p.aCount ELSE p.bCount
        maxIdx == CeilDiv((t - p.anchorAudioRef + ScheduleAheadPolyMs) * big, p.barMs) + 2
    IN IF idx > maxIdx + n THEN idx % n ELSE idx

\* tick() at audio time t: the refs afterwards and the clicks of both streams
PolyTickResult(p, t) ==
    LET ra == PolyDrain(p.nextIndexARef, p.aCount, p.bCount, p.barMs,
                        p.anchorAudioRef, t, <<>>)
        rb == PolyDrain(p.nextIndexBRef, p.bCount, p.aCount, p.barMs,
                        p.anchorAudioRef, t, <<>>)
    IN [p |-> [p EXCEPT !.nextIndexARef = PolyRolled(ra.next, p.aCount, p, t),
                        !.nextIndexBRef = PolyRolled(rb.next, p.bCount, p, t),
                        !.timerAt = t],
        A |-> ra.out, B |-> rb.out]

\* resetAnchors() at audio time t
PolyResetAnchors(p, t) ==
    [p EXCEPT !.anchorAudioRef = t, !.nextIndexARef = 0, !.nextIndexBRef = 0]

\* the click scheduler effect of a render, at audio time t: the interval of
\* the previous render is cleared, and a new one is set while playing with
\* clicks on
PolySchedulerEffect(p, t) ==
    IF p.playing /\ p.clicks
    THEN [p EXCEPT !.schedTimerRef = TimerId, !.timerAt = t]
    ELSE [p EXCEPT !.schedTimerRef = None]

\* stop(): the interval is cleared
PolyStopped(p) == [p EXCEPT !.playing = FALSE, !.schedTimerRef = None]

\* start(), then the effects of the render it causes
PolyStart ==
    /\ tile \in {"poly", "polybar", "polyrun", "polydense"}
    /\ UserOp
    /\ ~poly.playing
    /\ poly' = PolySchedulerEffect([PolyResetAnchors(poly, now) EXCEPT !.playing = TRUE], now)
    /\ pout' = PoutInit
    /\ UNCHANGED <<tile, now, metro, sync, obs, metronome, clave, sink, mic, frame, yin, smooth, keys>>

\* stop(), then the cleanup of the click scheduler effect
PolyStop ==
    /\ tile \in {"poly", "polybar"}
    /\ UserOp
    /\ poly.playing
    /\ poly' = PolyStopped(poly)
    /\ UNCHANGED <<tile, now, metro, sync, obs, metronome, clave, sink, mic, frame, pout, yin, smooth, keys>>

\* the interval fires, not earlier than LOOKAHEAD_MS after it was set or
\* fired last: tick()
PolyTick ==
    /\ tile \in {"poly", "polybar", "polyrun", "polydense"}
    /\ poly.schedTimerRef # None
    /\ now >= poly.timerAt + LOOKAHEAD_MS
    /\ LET r == PolyTickResult(poly, now)
       IN /\ poly' = r.p
          /\ pout' = [A |-> pout.A \o r.A, B |-> pout.B \o r.B,
                      nominal |-> pout.nominal /\ now = poly.timerAt + LOOKAHEAD_MS]
    /\ UNCHANGED <<tile, ops, now, metro, sync, obs, metronome, clave, sink, mic, frame, yin, smooth, keys>>

\* the A or B field is edited to another valid count: the click scheduler
\* effect sets a new interval, and while playing the [aStr, bStr, barStr]
\* effect calls resetAnchors()
PolySetCounts(a, b) ==
    /\ tile = "poly"
    /\ UserOp
    /\ <<a, b>> # <<poly.aCount, poly.bCount>>
    /\ LET p1 == PolySchedulerEffect([poly EXCEPT !.aCount = a, !.bCount = b], now)
       IN IF poly.playing
          THEN poly' = PolyResetAnchors(p1, now) /\ pout' = PoutInit
          ELSE poly' = p1 /\ UNCHANGED pout
    /\ UNCHANGED <<tile, now, metro, sync, obs, metronome, clave, sink, mic, frame, yin, smooth, keys>>

\* the clicks checkbox is toggled: the click scheduler effect runs
PolySetClicks ==
    /\ tile = "poly"
    /\ UserOp
    /\ poly' = PolySchedulerEffect([poly EXCEPT !.clicks = ~poly.clicks], now)
    /\ pout' = [pout EXCEPT !.nominal = @ /\ ~poly.playing]
    /\ UNCHANGED <<tile, now, metro, sync, obs, metronome, clave, sink, mic, frame, yin, smooth, keys>>

\* the bar field is edited to another valid duration: onBarChange stops the
\* playback first
PolySetBar(bar) ==
    /\ tile = "poly"
    /\ UserOp
    /\ bar # poly.barMs
    /\ poly' = [PolyStopped(poly) EXCEPT !.barMs = bar]
    /\ UNCHANGED <<tile, now, metro, sync, obs, metronome, clave, sink, mic, frame, pout, yin, smooth, keys>>

----------------------------------------------------------------------------
(* detectPitchHzYIN, in fixed point: samples in thousandths of full scale, *)
(* CMND values in 1/65536, lags in 1/1024 of a sample, frequencies in      *)
(* tenths of a Hz.  Infinity and NaN are the JavaScript values of the      *)
(* bounds; a CMND value of None is NaN.                                    *)

Infinity == 1000000000
NaN == -1000000000
SampleRate == 48000
CmOne == 65536

\* a quarter of a sine wave of 256 samples per period, amplitude 0.1
SinQuarter ==
    <<0, 2, 5, 7, 10, 12, 15, 17, 20, 22, 24, 27, 29, 31, 34, 36, 38, 41, 43, 45,
      47, 49, 51, 53, 56, 58, 60, 62, 63, 65, 67, 69, 71, 72, 74, 76, 77, 79, 80,
      82, 83, 84, 86, 87, 88, 89, 90, 91, 92, 93, 94, 95, 96, 96, 97, 98, 98, 99,
      99, 99, 100, 100, 100, 100, 100>>

\* the same for 200 samples per period
SinQuarter200 ==
    <<0, 3, 6, 9, 13, 16, 19, 22, 25, 28, 31, 34, 37, 40, 43, 45, 48, 51, 54, 56,
      59, 61, 64, 66, 68, 71, 73, 75, 77, 79, 81, 83, 84, 86, 88, 89, 90, 92, 93,
      94, 95, 96, 97, 98, 98, 99, 99, 100, 100, 100, 100>>

\* sample k of one period of per samples
SinTab(k, per) ==
    LET quarter == IF per = 256 THEN SinQuarter ELSE SinQuarter200
        q == per \div 4
    IN IF k <= q THEN quarter[k + 1]
       ELSE IF k <= 2 * q THEN quarter[2 * q - k + 1]
       ELSE IF k <= 3 * q THEN -quarter[k - 2 * q + 1]
       ELSE -quarter[4 * q - k + 1]

\* fftSize samples of the pure tone of frequency p * SampleRate / per, its
\* amplitude divided by div
ToneBuf(p, per, div, fftSize) ==
    [i \in 1..fftSize |-> (SinTab(((i - 1) * p) % per, per) + div \div 2) \div div] \o <<>>

\* a buffer that repeats the pattern pat
PatternBuf(pat, fftSize) ==
    [i \in 1..fftSize |-> pat[((i - 1) % Len(pat)) + 1]] \o <<>>

\* the buffers getFloatTimeDomainData delivers
BufOf(name) ==
    CASE name = "empty" -> <<>>
      [] name = "zero" -> PatternBuf(<<0>>, 8)
      [] name = "quietAlt" -> PatternBuf(<<3, -3>>, 8)
      [] name = "loudAlt" -> PatternBuf(<<300, -300>>, 8)
      [] name = "loudDC" -> PatternBuf(<<500>>, 8)
      [] name = "loudNoise" -> <<300, -120, 40, 260, -310, 90, -20, 150>>
      [] name = "quietTone" -> ToneBuf(3, 256, 20, 256)
      [] name = "tone1" -> ToneBuf(1, 256, 1, 256)
      [] name = "tone2" -> ToneBuf(2, 256, 1, 256)
      [] name = "tone3" -> ToneBuf(3, 256, 1, 256)
      [] name = "tone4" -> ToneBuf(4, 256, 1, 256)
      [] name = "tone5" -> ToneBuf(1, 200, 1, 256)
      [] name = "tone6" -> ToneBuf(2, 200, 1, 256)
      [] name = "tone7" -> ToneBuf(3, 200, 1, 256)

\* the frequency of a tone buffer, in tenths of a Hz
ToneHz10(name) ==
    CASE name = "tone1" -> 1875
      [] name = "tone2" -> 3750
      [] name = "tone3" -> 5625
      [] name = "tone4" -> 7500
      [] name = "tone5" -> 2400
      [] name = "tone6" -> 4800
      [] name = "tone7" -> 7200

\* sum of buf[i]^2 for lo <= i <= hi (1-based), by halves
RECURSIVE SumSqRange(_, _, _)
SumSqRange(buf, lo, hi) ==
    IF lo > hi THEN 0
    ELSE IF lo = hi THEN buf[lo] * buf[lo]
    ELSE LET mid == (lo + hi) \div 2
         IN SumSqRange(buf, lo, mid) + SumSqRange(buf, mid + 1, hi)

SumSq(buf, n) == SumSqRange(buf, 1, n)

\* a gate that lets every buffer through
QuickGateOpen(buf) == FALSE

\* rms < 0.006, with rms = Math.sqrt(sum / N): NaN for the empty buffer
QuickGate(buf) == Len(buf) > 0 /\ SumSq(buf, Len(buf)) < 36 * Len(buf)

\* sum of (buf[i] - buf[i + tau])^2 for lo <= i <= hi (1-based), by halves
RECURSIVE DiffRange(_, _, _, _)
DiffRange(buf, tau, lo, hi) ==
    IF lo > hi THEN 0
    ELSE IF lo = hi THEN (buf[lo] - buf[lo + tau]) * (buf[lo] - buf[lo + tau])
    ELSE LET mid == (lo + hi) \div 2
         IN DiffRange(buf, tau, lo, mid) + DiffRange(buf, tau, mid + 1, hi)

\* d[tau]: the sum over i < N - tau of (buf[i] - buf[i + tau])^2
DiffAt(buf, tau) == DiffRange(buf, tau, 1, Len(buf) - tau)

\* Math.floor(sr / hz)
FloorOfRatio(sr, hz) ==
    IF hz = NaN THEN NaN
    ELSE IF hz = Infinity THEN 0
    ELSE IF hz = 0 THEN Infinity
    ELSE IF hz < 0 THEN -CeilDiv(sr, -hz)
    ELSE sr \div hz

\* Math.min(x, n), Math.max(n, x)
MathMin(x, n) == IF x = NaN THEN NaN ELSE IF x = Infinity THEN n ELSE IF x < n THEN x ELSE n
MathMax(n, x) == IF x = NaN THEN NaN ELSE IF x = Infinity THEN Infinity ELSE IF x > n THEN x ELSE n

\* floor(a * CmOne / b) for 0 <= a, 0 < b, bit by bit
RECURSIVE FracBits(_, _, _, _)
FracBits(r, b, bits, acc) ==
    IF bits = 0 THEN acc
    ELSE IF 2 * r >= b THEN FracBits(2 * r - b, b, bits - 1, 2 * acc + 1)
         ELSE FracBits(2 * r, b, bits - 1, 2 * acc)

\* sum of d[j] for lo <= j <= hi, by halves
RECURSIVE SumRange(_, _, _)
SumRange(d, lo, hi) ==
    IF lo > hi THEN 0
    ELSE IF lo = hi THEN d[lo]
    ELSE LET mid == (lo + hi) \div 2
         IN SumRange(d, lo, mid) + SumRange(d, mid + 1, hi)

\* running sum of d up to tau
RunningTo(d, tau) == SumRange(d, 1, tau)

\* cmnd[tau] = d[tau] * tau / running
CmndAt(d, tau) ==
    LET running == RunningTo(d, tau)
        a == d[tau] * tau
    IN IF running = 0 THEN None
       ELSE (a \div running) * CmOne + FracBits(a % running, running, 16, 0)

\* a < b on CMND values: false when either is NaN
CmLess(a, b) == a # None /\ b # None /\ a < b

\* the first lag under the threshold, taken as it is
LocalMinimumStay(cmnd, t, maxTau) == t

\* while (t + 1 <= maxTau && cmnd[t + 1] < cmnd[t]) t++ : the first lag
\* from t on at which the walk stops
LocalMinimum(cmnd, t, maxTau) ==
    LET stops == {u \in t..maxTau : ~(u + 1 <= maxTau /\ CmLess(cmnd[u + 1], cmnd[u]))}
    IN CHOOSE u \in stops : \A v \in stops : u <= v

\* the loop started from the last lag under the threshold
FirstDipLast(cmnd, t, maxTau, th) ==
    LET dips == {u \in t..maxTau : cmnd[u] # None /\ cmnd[u] * 100 < th * CmOne}
    IN IF dips = {} THEN -1
       ELSE LocalMinimum(cmnd, CHOOSE u \in dips : \A v \in dips : u >= v, maxTau)

\* the absolute threshold loop from t on: the tau found, or -1;
\* th is the threshold in hundredths
FirstDip(cmnd, t, maxTau, th) ==
    LET dips == {u \in t..maxTau : cmnd[u] # None /\ cmnd[u] * 100 < th * CmOne}
    IN IF dips = {} THEN -1
       ELSE LocalMinimum(cmnd, CHOOSE u \in dips : \A v \in dips : u <= v, maxTau)

\* parabolic interpolation around tau and f = sr / betterTau: the value
\* returned, f in tenths of a Hz
Interpolated(cmnd, tau, maxTau, sr) ==
    LET x0 == IF tau <= 1 THEN tau ELSE tau - 1
        x2 == IF tau + 1 > maxTau THEN tau ELSE tau + 1
        y0 == cmnd[x0]
        y1 == cmnd[tau]
        y2 == cmnd[x2]
        denom == y0 - 2 * y1 + y2
        num == 512 * (y0 - y2)
        betterTau == tau * 1024 +
            (IF denom = 0 THEN 0
             ELSE IF denom > 0 THEN num \div denom ELSE (-num) \div (-denom))
    IN IF y0 = None \/ y1 = None \/ y2 = None THEN [kind |-> "null"]
       ELSE IF betterTau = 0 THEN [kind |-> "null"]
       ELSE IF betterTau > 0 THEN [kind |-> "hz", f |-> (sr * 10240) \div betterTau]
       ELSE [kind |-> "hz", f |-> -((sr * 10240) \div (-betterTau))]

\* detectPitchHzYIN(analyser, minHz, maxHz, threshold) for the buffer buf and
\* the sample rate sr
detectPitchHzYIN(buf, sr, minHz, maxHz, th) ==
    LET N == Len(buf)
        maxTau == MathMin(FloorOfRatio(sr, minHz), N - 1)
        minTau == MathMax(2, FloorOfRatio(sr, maxHz))
        len == IF maxTau = NaN THEN 0 ELSE maxTau + 1
        d == [tau \in 1..(len - 1) |-> DiffAt(buf, tau)] \o <<>>
        cmnd == [tau \in 1..(len - 1) |-> CmndAt(d, tau)] \o <<>>
        tau == IF maxTau = NaN \/ minTau \in {NaN, Infinity} THEN -1
               ELSE FirstDip(cmnd, minTau, maxTau, th)
    IN IF QuickGate(buf) THEN [kind |-> "null"]
       ELSE IF len < 0 THEN [kind |-> "throw"]
       ELSE IF tau = -1 THEN [kind |-> "null"]
       ELSE Interpolated(cmnd, tau, maxTau, sr)

\* no threshold loop has run
ScanInit == [scanned |-> FALSE, lags |-> {}, maxTau |-> None, cmnd |-> <<>>, tau |-> -1]

\* the threshold loop of a call that gets past the quick gate and the
\* allocation: the lags minTau..maxTau it walks, the cmnd it reads and the
\* tau it leaves
YinScan(buf, sr, minHz, maxHz, th) ==
    LET N == Len(buf)
        maxTau == MathMin(FloorOfRatio(sr, minHz), N - 1)
        minTau == MathMax(2, FloorOfRatio(sr, maxHz))
        len == IF maxTau = NaN THEN 0 ELSE maxTau + 1
        d == [tau \in 1..(len - 1) |-> DiffAt(buf, tau)] \o <<>>
        cmnd == [tau \in 1..(len - 1) |-> CmndAt(d, tau)] \o <<>>
        numeric == maxTau # NaN /\ minTau \notin {NaN, Infinity}
    IN IF QuickGate(buf) \/ len < 0 THEN ScanInit
       ELSE [scanned |-> TRUE,
             lags |-> IF numeric THEN minTau..maxTau ELSE {},
             maxTau |-> maxTau,
             cmnd |-> cmnd,
             tau |-> IF numeric THEN FirstDip(cmnd, minTau, maxTau, th) ELSE -1]

HzInputs == {-30, 0, 30, 24000, Infinity, NaN}
ThresholdInputs == {-5, 0, 12}
SmallBufs == {"empty", "zero", "quietAlt", "loudAlt", "loudDC", "loudNoise", "quietTone"}
ToneBufs == {"tone1", "tone2", "tone3", "tone4", "tone5", "tone6", "tone7"}

\* the calls made: every small buffer with every bounds, the tones with the
\* bounds and the threshold of the call in tick()
YinInputs ==
    [buf : SmallBufs, minHz : HzInputs, maxHz : HzInputs, th : ThresholdInputs]
        \cup [buf : ToneBufs, minHz : {30}, maxHz : {900}, th : {12}]

YinInit == [in |-> [buf |-> "empty", minHz |-> 30, maxHz |-> 900, th |-> 12],
            out |-> [kind |-> "pending"], scan |-> ScanInit]

\* one call of detectPitchHzYIN
YinDetect ==
    /\ tile = "yin"
    /\ yin.out.kind = "pending"
    /\ yin' = [yin EXCEPT !.out =
            detectPitchHzYIN(BufOf(yin.in.buf), SampleRate, yin.in.minHz,
                             yin.in.maxHz, yin.in.th),
                          !.scan =
            YinScan(BufOf(yin.in.buf), SampleRate, yin.in.minHz,
                    yin.in.maxHz, yin.in.th)]
    /\ UNCHANGED <<tile, ops, now, metro, sync, obs, metronome, clave, sink, mic, frame, poly, pout,
                   smooth, keys>>

----------------------------------------------------------------------------
(***************************************************************************)
(* The pitch smoothers: the One-Euro filter of MicAnswer and the           *)
(* exponential smoothing of the older detection loop kept in Tuner.tsx,    *)
(* fed with the same detected pitches.                                     *)
(***************************************************************************)

\* tau = baseTau + extra, ms: more smoothing for bass
SmoothTau(hz) == 180 + (IF hz < 13000 THEN 200 ELSE IF hz < 20000 THEN 120 ELSE 40)

\* dt = Math.min(120, Math.max(0, now - lastTs)), whole ms
SmoothDt(gap) == IF gap < 0 THEN 0 ELSE IF gap > 120000 THEN 120 ELSE gap \div 1000

\* k = 1 - Math.exp(-dt / tau), in thousandths, for the frame gaps used
ExpFactor(dtMs, tau) ==
    CASE dtMs = 0 -> 0
      [] dtMs = 16 -> (IF tau = 380 THEN 41 ELSE IF tau = 300 THEN 52 ELSE 70)
      [] dtMs = 50 -> (IF tau = 380 THEN 123 ELSE IF tau = 300 THEN 154 ELSE 203)
      [] dtMs = 120 -> (IF tau = 380 THEN 271 ELSE IF tau = 300 THEN 330 ELSE 420)

\* the output overshoots its input
ExpSmoothOver(prev, hz, dtMs) ==
    IF prev = None THEN hz ELSE hz + (hz - prev)

\* smoothHzRef after a frame with the pitch hz
ExpSmooth(prev, hz, dtMs) ==
    IF prev = None THEN hz
    ELSE prev + ((hz - prev) * ExpFactor(dtMs, SmoothTau(hz))) \div 1000

SmoothInit ==
    [euro |-> EuroInit, smoothHzRef |-> None, n |-> 0,
     last |-> [x |-> None, euroPrev |-> None, euroOut |-> None,
               expPrev |-> None, expOut |-> None]]

\* one frame with the detected pitch x, gap microseconds after the last one
SmoothFrame(x, gap) ==
    /\ tile = "smooth"
    /\ smooth.n < MaxSmoothFrames
    /\ LET sm == OneEuroFilter(smooth.euro, x, FrameDt(gap))
           ex == ExpSmooth(smooth.smoothHzRef, x, SmoothDt(gap))
       IN smooth' = [euro |-> sm.e, smoothHzRef |-> ex, n |-> smooth.n + 1,
                     last |-> [x |-> x, euroPrev |-> smooth.euro.xPrev, euroOut |-> sm.x,
                               expPrev |-> smooth.smoothHzRef, expOut |-> ex]]
    /\ UNCHANGED <<tile, ops, now, metro, sync, obs, metronome, clave, sink, mic, frame, poly, pout,
                   yin, keys>>

\* start(): new OneEuro(...), smoothHzRef.current = null
SmoothReset ==
    /\ tile = "smooth"
    /\ smooth.smoothHzRef # None
    /\ smooth' = [smooth EXCEPT !.euro = EuroInit, !.smoothHzRef = None]
    /\ UNCHANGED <<tile, ops, now, metro, sync, obs, metronome, clave, sink, mic, frame, poly, pout,
                   yin, keys>>

----------------------------------------------------------------------------
(* Specifications *)

InitBase ==
    /\ now = 0
    /\ ops = 0
    /\ metro = [i \in Inst |-> MetroInit]
    /\ sync = SyncInit
    /\ obs = [i \in Inst |-> ObsInit]
    /\ clave = ClaveInit
    /\ sink = [s \in Streams |-> OutInit]
    /\ smooth = SmoothInit
    /\ keys = <<>>
    /\ frame = FrameInit

InitCommon ==
    /\ InitBase
    /\ metronome = MetronomeInit
    /\ yin = YinInit
    /\ poly = PolyInit
    /\ pout = PoutInit

Tick == tile # "poly" /\ \E d \in Delays : Advance(d)

\* the synced metronome instances
InitSync == tile = "sync" /\ InitCommon /\ mic = MicInit

NextSync ==
    \/ \E i \in Inst : SyncStart(i)
    \/ \E i \in Inst : SyncStop(i)
    \/ \E i \in Inst : SyncUnmount(i)
    \/ SyncKeySpace
    \/ SyncKeyListener
    \/ \E i \in Inst : SyncSchedulerTick(i)
    \/ \E i \in Inst : \E b \in Bpms : \E n \in Nums : \E d \in Dens :
            SyncSetTiming(i, b, n, d)
    \/ Tick

SpecSync == InitSync /\ [][NextSync]_vars

\* the single-stream schedulers: plain metronome and clave
InitSched == tile \in {"metronome", "clave"} /\ InitCommon /\ mic = MicInit

NextSched ==
    \/ MetronomeStart
    \/ MetronomeStop
    \/ MetronomeKeySpace
    \/ MetronomeSchedulerTick
    \/ \E b \in Bpms : \E n \in Nums : \E d \in Dens : MetronomeSetTiming(b, n, d)
    \/ ClaveStart
    \/ ClaveStop
    \/ ClaveScheduleAhead
    \/ \E b \in Bpms : \E g \in Groups : ClaveSetTiming(b, g)
    \/ \E i \in ToggleSteps : ClaveToggleStep(i)
    \/ \E name \in PresetNames : ClaveLoadPreset(name)
    \/ Tick

SpecSched == InitSched /\ [][NextSched]_vars

\* the microphone gate while the caller keeps listening enabled: the mount
\* effect has called start()
InitGate ==
    /\ tile = "mic" /\ InitCommon
    /\ mic = [MicInit EXCEPT !.enabled = TRUE, !.pending = <<MicInit.targetPc>>]

NextGate ==
    \/ MicStartResolved
    \/ \E id \in mic.loops : \E gap \in FrameGaps : \E pitch \in PitchInputs \cup {None} :
            MicFrame(id, gap, pitch)

SpecGate == InitGate /\ [][NextGate]_vars

\* the gate over a session of slow frames
NextHold ==
    \/ MicStartResolved
    \/ \E id \in mic.loops : \E pitch \in PitchInputs \cup {None} :
            MicHoldFrame(id, 200000, pitch)

SpecHold == InitGate /\ [][NextHold]_vars

\* the microphone component under enabled / suspend changes
InitMic == tile = "mic" /\ InitCommon /\ mic = MicInit

NextMic ==
    \/ \E e \in BOOLEAN : \E su \in BOOLEAN : MicSetProps(e, su)
    \/ \E pc \in TargetPcs : MicSetTarget(pc)
    \/ MicStartResolved
    \/ \E name \in ErrorNames : MicStartRejected(name)
    \/ \E id \in mic.loops : \E pitch \in PitchInputs \cup {None} :
            MicFrame(id, 50000, pitch)

SpecMic == InitMic /\ [][NextMic]_vars

\* the polyrhythm
InitPoly == tile = "poly" /\ InitCommon /\ mic = MicInit

NextPoly ==
    \/ PolyStart
    \/ PolyStop
    \/ PolyTick
    \/ \E a \in PolyCounts : \E b \in PolyCounts : PolySetCounts(a, b)
    \/ PolySetClicks
    \/ \E bar \in PolyBars : PolySetBar(bar)
    \/ tile = "poly" /\ \E d \in PolyDelays : Advance(d)

SpecPoly == InitPoly /\ [][NextPoly]_vars

\* the polyrhythm 3 against 4 over a 2-second bar
LongBarMs == 2000

InitPolyBar ==
    /\ tile = "polybar" /\ InitBase /\ metronome = MetronomeInit /\ mic = MicInit
    /\ poly = [PolyInit EXCEPT !.aCount = 3, !.bCount = 4, !.barMs = LongBarMs]
    /\ pout = PoutInit
    /\ yin = YinInit

PolyBarAdvance(d) ==
    /\ tile = "polybar"
    /\ now + d <= PolyMaxTime
    /\ now' = now + d
    /\ UNCHANGED <<tile, ops, metro, sync, obs, metronome, clave, sink, mic, frame, poly, pout, yin, smooth, keys>>

NextPolyBar ==
    \/ PolyStart
    \/ PolyStop
    \/ PolyTick
    \/ \E d \in PolyBarDelays : PolyBarAdvance(d)

SpecPolyBar == InitPolyBar /\ [][NextPolyBar]_vars

\* a run of 2 against 3 over a quarter-second bar that lasts several bars
InitPolyRun ==
    /\ tile = "polyrun" /\ InitBase /\ metronome = MetronomeInit /\ mic = MicInit
    /\ poly = [PolyInit EXCEPT !.aCount = 2, !.bCount = 3, !.barMs = 250]
    /\ pout = PoutInit
    /\ yin = YinInit

PolyRunAdvance(d) ==
    /\ tile = "polyrun"
    /\ now + d <= PolyRunMaxTime
    /\ now' = now + d
    /\ UNCHANGED <<tile, ops, metro, sync, obs, metronome, clave, sink, mic, frame, poly, pout, yin, smooth, keys>>

NextPolyRun ==
    \/ PolyStart
    \/ PolyTick
    \/ \E d \in PolyDelays : PolyRunAdvance(d)

SpecPolyRun == InitPolyRun /\ [][NextPolyRun]_vars

\* runs with many events per bar: 8 or 32 against 9 over a quarter-second bar
DenseCounts == {8, 32}

InitPolyDense ==
    /\ tile = "polydense" /\ InitBase /\ metronome = MetronomeInit /\ mic = MicInit
    /\ \E a \in DenseCounts : poly = [PolyInit EXCEPT !.aCount = a, !.bCount = 9, !.barMs = 250]
    /\ pout = PoutInit
    /\ yin = YinInit

PolyDenseAdvance(d) ==
    /\ tile = "polydense"
    /\ now + d <= PolyDenseMaxTime
    /\ now' = now + d
    /\ UNCHANGED <<tile, ops, metro, sync, obs, metronome, clave, sink, mic, frame, poly, pout, yin, smooth, keys>>

NextPolyDense ==
    \/ PolyStart
    \/ PolyTick
    \/ \E d \in PolyDelays : PolyDenseAdvance(d)

SpecPolyDense == InitPolyDense /\ [][NextPolyDense]_vars

\* the reference note: the part of tick() that compares the smoothed pitch
\* with the target pitch class, for smoothed pitches between MIDI 22.5 and
\* 81.5 (30 Hz .. 900 Hz) in steps of half a semitone
ProbeMidiCents == {50 * i : i \in 45..163}
PitchClasses == 0..11

InitCents == tile = "cents" /\ InitCommon /\ mic = MicInit

CentsProbe(mc, pc) ==
    /\ tile = "cents"
    /\ frame' = [FrameInit EXCEPT !.processed = TRUE, !.valid = TRUE, !.pc = pc,
                                  !.midiFloat = mc,
                                  !.candidateMidi = nearestMidiForPc(mc, pc),
                                  !.centsRaw = CentsRaw(mc, pc)]
    /\ UNCHANGED <<tile, ops, now, metro, sync, obs, metronome, clave, sink, mic, poly, pout, yin, smooth, keys>>

NextCents == \E mc \in ProbeMidiCents : \E pc \in PitchClasses : CentsProbe(mc, pc)

SpecCents == InitCents /\ [][NextCents]_vars

\* calls of the pitch detector
InitYin ==
    /\ tile = "yin" /\ InitBase /\ metronome = MetronomeInit /\ mic = MicInit
    /\ poly = PolyInit /\ pout = PoutInit
    /\ \E in \in YinInputs : yin = [YinInit EXCEPT !.in = in]

NextYin == YinDetect

SpecYin == InitYin /\ [][NextYin]_vars

\* one long run of the plain metronome at 120 bpm in 4/4 (0.5 s per beat),
\* its timer firing every 25 ms
InitMetroBar ==
    /\ tile = "metrobar" /\ InitBase /\ mic = MicInit
    /\ yin = YinInit /\ poly = PolyInit /\ pout = PoutInit
    /\ metronome = KeyListenerCurrent(
            [MetronomeInit EXCEPT !.bpm = 120, !.sig = [num |-> 4, den |-> 4]])

NextMetroBar ==
    \/ MetronomeStart
    \/ MetronomeTimerOnTime
    \/ \E d \in IdleDelays : MetronomeIdle(d)

SpecMetroBar == InitMetroBar /\ [][NextMetroBar]_vars

\* the smoothers alone
InitSmooth ==
    /\ tile = "smooth" /\ InitCommon /\ mic = MicInit

NextSmooth ==
    \/ \E x \in SmoothPitches : \E gap \in SmoothGaps : SmoothFrame(x, gap)
    \/ SmoothReset

SpecSmooth == InitSmooth /\ [][NextSmooth]_vars

\* every tile
Init == InitSync \/ InitSched \/ InitMic \/ InitPoly \/ InitPolyBar \/ InitYin \/ InitSmooth
        \/ InitMetroBar
Next == NextSync \/ NextSched \/ NextMic \/ NextPoly \/ NextPolyBar \/ NextYin \/ NextSmooth
        \/ NextMetroBar
Spec == Init /\ [][Next]_vars

----------------------------------------------------------------------------
(* Claims about the synced metronome instances *)

\* g is the first point of the grid a + k * L (k an integer) not earlier than t
IsNextGridPoint(g, a, L, t) == (g - a) % L = 0 /\ g >= t /\ g - L < t

\* instance i, stopped, is started in this step while an anchor is published
StartJoin(i) ==
    /\ ~metro[i].running /\ metro'[i].running
    /\ sync.anchor # None /\ sync.barLen > 0 /\ sync.ownerId # i

\* the timestamp of the first click of the run of instance i after this step:
\* already handed over by start's own schedulerTick, or still to come
FirstClickAfter(i) ==
    IF obs'[i].runFirst # None THEN obs'[i].runFirst ELSE metro'[i].nextTimeRef

\* C2 as stated: an instance started at audio time now while another instance
\* owns the anchor clicks first at anchor + ceil((now - anchor)/barLen) * barLen,
\* the first grid point not earlier than now.
C2_FirstClickAtCeilOfNow ==
    [][\A i \in Inst : StartJoin(i) =>
            IsNextGridPoint(FirstClickAfter(i), sync.anchor, sync.barLen, now)]_vars

\* C2 amended: the first click is at the first grid point not earlier than
\* now + 20 ms, anchor + ceil((now + 0.02 - anchor)/barLen) * barLen.
C2_FirstClickAtCeilOfNowPlusMargin ==
    [][\A i \in Inst : StartJoin(i) =>
            IsNextGridPoint(FirstClickAfter(i), sync.anchor, sync.barLen,
                            now + SyncMarginMs)]_vars

\* an instance that joined an owner's grid has clicked first on a later bar
\* of that grid
C2_Witness ==
    \E i \in Inst :
        /\ metro[i].running /\ ~obs[i].restart
        /\ obs[i].startAnchor # None /\ sync.ownerId # i
        /\ obs[i].runFirst # None /\ obs[i].runFirst > obs[i].startAnchor

\* the downbeat grid of a running instance: the time of a click with beat
\* index 0, and the bar length of the run
DownbeatOf(m) == m.nextTimeRef - m.beatRef * m.tickSpb
BarLenOf(m) == m.tickSpb * m.tickNum

\* C3: any two instances running at the same time with the same bar length
\* have their downbeats on one common grid.
C3_DownbeatsOnCommonGrid ==
    \A i, j \in Inst :
        (metro[i].running /\ metro[j].running /\ BarLenOf(metro[i]) = BarLenOf(metro[j]))
            => (DownbeatOf(metro[i]) - DownbeatOf(metro[j])) % BarLenOf(metro[i]) = 0

----------------------------------------------------------------------------
(* Claims about the single-stream schedulers *)

ToleranceMs == 10       \* the scheduling tolerance, tEvent < now - 0.01


\* C1: within one run, the timestamps of consecutively emitted clicks differ
\* by exactly the period of the run, whenever the timer wakes the scheduler.
C1_ExactPeriod ==
    \A s \in Streams :
        LET o == sink[s] IN
        /\ (o.batch # <<>> /\ o.batchPrev # None) => o.batch[1].t - o.batchPrev = o.runPeriod
        /\ \A k \in 1..(Len(o.batch) - 1) : o.batch[k + 1].t - o.batch[k].t = o.runPeriod

\* a wake-up that came late handed over two clicks of a run at once, after
\* earlier clicks of the same run
C1_Witness ==
    \E s \in Streams :
        /\ sink[s].batchPrev # None /\ Len(sink[s].batch) >= 2
        /\ sink[s].batchAt > sink[s].batch[1].t

\* C7: every event a stream emits has a timestamp strictly greater than that
\* of every event the stream emitted before, restarts included.
C7_StrictlyIncreasing ==
    \A s \in Streams :
        LET o == sink[s] IN
        /\ (o.batch # <<>> /\ o.prevMax # None) => o.batch[1].t > o.prevMax
        /\ \A k \in 1..(Len(o.batch) - 1) : o.batch[k + 1].t > o.batch[k].t

\* C9: a tick never emits an event older than the current audio time (minus
\* the tolerance), and never more events than fit in the look-ahead window.
C9_NoCatchUpFlood ==
    \A s \in Streams :
        LET o == sink[s] IN
        o.batch # <<>> =>
            /\ \A k \in 1..Len(o.batch) : o.batch[k].t >= o.batchAt - ToleranceMs
            /\ Len(o.batch) <= CeilDiv(ScheduleAheadMs, o.runPeriod)

\* the clicks of the current run so far are the first one, with index 0, and
\* the following ones at multiples of the period after it, the index counting
\* up modulo the cycle; next and idx are the scheduler's next time and index
OnRunGrid(o, next, idx, period, cycle) ==
    IF o.runFirst = <<>> THEN idx = 0
    ELSE /\ o.runFirst[1].idx = 0
         /\ (next - o.runFirst[1].t) % period = 0
         /\ idx = ((next - o.runFirst[1].t) \div period) % cycle
         /\ o.runLast = next - period

\* C8: a timing change while running restarts the scheduler: the first click
\* emitted after the change has index 0 at a start time taken at the change
\* (for the plain metronome and the clave the time of the change + 60 ms),
\* later clicks are spaced from it by the new period, and a running
\* scheduler's period is the one its run was started with.
C8_RestartOnTimingChange ==
    /\ metronome.running =>
          LET o == sink["metronome"] IN
          /\ metronome.tickSpb = o.runPeriod /\ metronome.tickNum = o.runCycle
          /\ o.restart =>
                (o.runPeriod = MetroSpb(metronome) /\ o.runCycle = metronome.sig.num)
          /\ OnRunGrid(o, metronome.nextTimeRef, metronome.beatRef, o.runPeriod, o.runCycle)
          /\ o.restart => o.runFirst[1].t = o.startNow + StartOffsetMs
    /\ clave.running =>
          LET o == sink["clave"] IN
          /\ clave.tickSpp = o.runPeriod
          /\ o.runPeriod = ClaveSpp(clave)
          /\ OnRunGrid(o, clave.nextPulseTimeRef, clave.pulseIndexRef, o.runPeriod, PulsesPerBar)
          /\ o.restart => o.runFirst[1].t = o.startNow + StartOffsetMs
    /\ \A i \in Inst : metro[i].running =>
          /\ obs[i].restart =>
                (metro[i].tickSpb = MetroSpb(metro[i]) /\ metro[i].tickNum = metro[i].sig.num)
          /\ IF obs[i].runFirst = None THEN metro[i].beatRef = 0
             ELSE /\ (metro[i].nextTimeRef - obs[i].runFirst) % metro[i].tickSpb = 0
                  /\ metro[i].beatRef =
                        ((metro[i].nextTimeRef - obs[i].runFirst) \div metro[i].tickSpb)
                            % metro[i].tickNum

\* a scheduler restarted by a timing change has emitted clicks of the new run
\* beyond its first
C8_Witness ==
    \/ /\ metronome.running /\ sink["metronome"].restart
       /\ sink["metronome"].runLast > sink["metronome"].runFirst[1].t
       /\ sink["metronome"].batchPrev # None
    \/ /\ clave.running /\ sink["clave"].restart
       /\ sink["clave"].runLast > sink["clave"].runFirst[1].t
       /\ sink["clave"].batchPrev # None

----------------------------------------------------------------------------
(* Claims about the microphone answer gate *)

\* C4: onCorrect fires on the frame at which the accumulated in-range time
\* first reaches holdMs, and never on a frame where it is still below holdMs
C4_OnCorrectWhenHoldReached ==
    /\ mic.heldMsRef < HoldUs
    /\ frame.processed =>
        /\ frame.before < HoldUs
        /\ frame.onCorrect <=>
            (frame.valid /\ frame.inRange /\ frame.before + frame.dt >= HoldUs)

C4_Witness ==
    /\ frame.processed /\ frame.onCorrect
    /\ frame.before > 0 /\ frame.before + frame.dt = HoldUs

\* C5: on a frame with a valid pitch the hold timer is reset to 0 without
\* completing exactly when |median| > centsTolerance + 7; with the median in
\* the band (centsTolerance, centsTolerance + 7] the timer is left as it was
C5_ResetOnlyBeyondHysteresis ==
    (frame.processed /\ frame.valid) =>
        /\ Abs(frame.med2) > 2 * (CENTS_TOL + HYSTERESIS_EXTRA_CENTS) =>
                (frame.after = 0 /\ ~frame.onCorrect)
        /\ (Abs(frame.med2) > 2 * CENTS_TOL
            /\ Abs(frame.med2) <= 2 * (CENTS_TOL + HYSTERESIS_EXTRA_CENTS)) =>
                (frame.after = frame.before /\ ~frame.onCorrect)
        /\ (frame.after = 0 /\ frame.before > 0 /\ ~frame.onCorrect) =>
                Abs(frame.med2) > 2 * (CENTS_TOL + HYSTERESIS_EXTRA_CENTS)

C5_Witness ==
    /\ frame.processed /\ frame.valid /\ frame.before > 0
    /\ Abs(frame.med2) > 2 * CENTS_TOL
    /\ Abs(frame.med2) <= 2 * (CENTS_TOL + HYSTERESIS_EXTRA_CENTS)
    /\ frame.after = frame.before

\* C6: heldMs increases only on a frame with a valid pitch whose |median| is
\* at most centsTolerance, and then by that frame's dt; while every frame has
\* a valid pitch within tolerance heldMs is reset only by the completion
C6_AccumulatesOnlyInTolerance ==
    frame.processed =>
        /\ mic.heldMsRef = frame.after
        /\ frame.after > frame.before =>
            /\ frame.valid /\ Abs(frame.med2) <= 2 * CENTS_TOL
            /\ frame.after = frame.before + frame.dt
        /\ frame.allInTol =>
            \/ frame.after = frame.before + frame.dt
            \/ frame.onCorrect /\ frame.after = 0

C6_Witness ==
    /\ frame.processed /\ frame.allInTol /\ ~frame.onCorrect
    /\ frame.before > 0 /\ frame.after = frame.before + frame.dt

\* C10: whenever enabled is false or suspend is true no detection frame is
\* processed, no onHeard or onCorrect is issued and the microphone stream is
\* released, also when the change comes while start() waits for the microphone
C10_IdleWhenDisabledOrSuspended ==
    (~mic.enabled \/ mic.suspend) =>
        /\ mic.streams = {}
        /\ mic.analyserRef = None
        /\ mic.loops = {}
        /\ frame.processed => frame.active

\* C11: the hold state (heldMs and the cents history) is destroyed at every
\* change of the target pitch class: after the caller changes targetPc,
\* heldMs is 0 and the history is empty
C11_TargetChangeClearsHold ==
    [][mic'.targetPc # mic.targetPc =>
            (mic'.heldMsRef = 0 /\ mic'.centsMedianRef = <<>>)]_vars

----------------------------------------------------------------------------
(* Claims about start, stop and the global anchor *)

\* C12: start() of a stopped metronome or clave with no global anchor present
\* resets the event index to 0 and anchors at the audio time + 60 ms: the
\* first event after start has index 0 and that timestamp
C12_StartAnchorsSixtyMsAhead ==
    [][/\ (~metronome.running /\ metronome'.running) =>
            sink'["metronome"].runFirst = <<[t |-> now + StartOffsetMs, idx |-> 0]>>
       /\ (~clave.running /\ clave'.running) =>
            sink'["clave"].runFirst = <<[t |-> now + StartOffsetMs, idx |-> 0]>>
       /\ \A i \in Inst :
            (~metro[i].running /\ metro'[i].running /\ sync.anchor = None) =>
                /\ obs'[i].runFirst = now + StartOffsetMs
                /\ obs'[i].runFirstIdx = 0]_vars

\* a metronome or clave started (not for the first time at time 0) and its
\* first event is out
C12_Witness ==
    \/ \E s \in Streams :
        /\ sink[s].runFirst # <<>> /\ ~sink[s].restart
        /\ sink[s].startNow > 0 /\ sink[s].maxT > sink[s].runFirst[1].t
    \/ \E i \in Inst :
        /\ metro[i].running /\ ~obs[i].restart /\ obs[i].startAnchor = None
        /\ obs[i].runFirst # None /\ obs[i].runFirst > StartOffsetMs

\* C13: after stop() of a metronome, the clave or the polyrhythm the pending
\* wake-up is cancelled and no event is scheduled until the next start():
\* every step that ends with the stream stopped leaves no timer armed and
\* leaves the events already handed to the audio engine as they were.
C13_NoEventAfterStop ==
    [][/\ ~metronome'.running =>
            (metronome'.schedulerRef = None /\ sink'["metronome"] = sink["metronome"])
       /\ ~clave'.running =>
            (clave'.schedulerRef = None /\ sink'["clave"] = sink["clave"])
       /\ ~poly'.playing =>
            (poly'.schedTimerRef = None /\ pout'.A = pout.A /\ pout'.B = pout.B)
       /\ \A i \in Inst :
            ~metro'[i].running =>
                (metro'[i].schedulerRef = None /\ obs'[i].runFirst \in {None, obs[i].runFirst})]_vars

\* a metronome was stopped after scheduling clicks, and the time of its last
\* scheduled click has passed
C13_Witness ==
    /\ ~metronome.running
    /\ sink["metronome"].maxT # None
    /\ now > sink["metronome"].maxT

\* C14: when the instance that owns the global anchor stops or is unmounted,
\* anchor, bar length and owner id are cleared; an instance that starts while
\* no anchor exists becomes the owner and publishes its own start time (the
\* time of its first click) and its bar length.
C14_OwnerReleaseAndElection ==
    [][\A i \in Inst :
        /\ (sync.ownerId = i /\ ~metro'[i].running) => sync' = SyncInit
        /\ (~metro[i].running /\ metro'[i].running /\ sync.anchor = None) =>
                /\ sync' = [anchor |-> now + StartOffsetMs,
                            barLen |-> metro'[i].tickSpb * metro'[i].tickNum,
                            ownerId |-> i]
                /\ obs'[i].runFirst = sync'.anchor]_vars

\* instance 1 started first and stopped; instance 2, started later with no
\* anchor, is the owner now
C14_Witness ==
    /\ sync.ownerId = 2
    /\ obs[2].startAnchor = None
    /\ ~metro[1].running
    /\ metro[1].beatRef > 0
    /\ metro[1].nextTimeRef < sync.anchor

\* C15: while an instance owns the global anchor, no step of another
\* instance (start, stop, unmount, tempo or time-signature change, timer
\* callback) modifies the anchor, the bar length or the owner id.
C15_NonOwnerLeavesAnchor ==
    [][\A j \in Inst :
        (sync.ownerId \notin {NoOwner, j} /\ metro'[j] # metro[j]) => sync' = sync]_vars

\* instance 1 owns the anchor and runs; instance 2 has run on another
\* tempo as a follower and was stopped
C15_Witness ==
    /\ sync.ownerId = 1
    /\ metro[1].running
    /\ ~metro[2].running
    /\ metro[2].beatRef > 0
    /\ metro[2].bpm # metro[1].bpm

\* C16: a frame without a pitch that comes within 180 ms of the last valid
\* pitch leaves heldMs and the cents history unchanged; a frame without a
\* pitch that comes more than 180 ms after it sets heldMs to 0 and empties
\* the cents history.
C16_GraceKeepsHoldState ==
    [][(frame'.count = frame.count + 1 /\ ~frame'.valid) =>
            IF frame'.ago <= DropoutUs
            THEN mic'.heldMsRef = mic.heldMsRef /\ mic'.centsMedianRef = mic.centsMedianRef
            ELSE mic'.heldMsRef = 0 /\ mic'.centsMedianRef = <<>>]_vars

\* a frame without a pitch inside the grace period has kept a hold in
\* progress
C16_Witness ==
    /\ frame.processed
    /\ ~frame.valid
    /\ frame.ago <= DropoutUs
    /\ frame.before > 0
    /\ mic.heldMsRef = frame.before
    /\ mic.centsMedianRef # <<>>

\* C17: on every frame for which no valid smoothed pitch exists the gate
\* reports not-in-range and the hold timer is reset to 0.
C17_NoSmoothedPitchResetsHold ==
    (frame.processed /\ frame.hzSmooth = None) => (~frame.inRange /\ frame.after = 0)

\* C18: after the detector has returned no pitch for longer than the grace
\* window the smoothing filter is uninitialized again: the first valid raw
\* pitch after the dropout is output by the smoother unchanged.
C18_FilterFreshAfterDropout ==
    [][(/\ frame.processed /\ ~frame.valid /\ frame.ago > DropoutUs
        /\ frame'.count = frame.count + 1 /\ frame'.valid)
            => frame'.hzSmooth = frame'.hzRaw]_vars

\* C19: the pitch reported through onPitch is null only after no valid
\* pitch has been detected for longer than the grace period.
C19_NullReportOnlyAfterGrace ==
    (frame.processed /\ frame.onPitch = "null") => frame.ago > DropoutUs

\* the clicks of one stream are its events 0, 1, 2, ... in order, each once,
\* up to the last one inside the look-ahead window of the latest tick
PolyInOrderFromZero(out, n) ==
    /\ \A j \in 1..Len(out) : out[j].k = j - 1
    /\ poly.timerAt > poly.anchorAudioRef =>
            Len(out) = ((poly.timerAt + ScheduleAheadPolyMs - poly.anchorAudioRef) * n)
                            \div poly.barMs + 1

\* C20: while the polyrhythm plays with clicks on and the ticks come every
\* 25 ms, every event k = 0, 1, 2, ... of stream A and of stream B is
\* emitted exactly once and in increasing order, starting with event 0 of
\* both streams at the shared anchor.
C20_EveryEventOnceFromZero ==
    (poly.playing /\ poly.clicks /\ pout.nominal) =>
        (PolyInOrderFromZero(pout.A, poly.aCount) /\ PolyInOrderFromZero(pout.B, poly.bCount))

\* C21: with A = 3 and B = 4 over a 2-second bar an emitted event carries
\* the coincidence (accent) flag only if its time is a bar boundary, that is
\* only if its index is a multiple of the events per bar of its stream.
C21_AccentOnlyAtBarBoundary ==
    (poly.aCount = 3 /\ poly.bCount = 4 /\ poly.barMs = LongBarMs) =>
        /\ \A j \in 1..Len(pout.A) : pout.A[j].accent => pout.A[j].k % 3 = 0
        /\ \A j \in 1..Len(pout.B) : pout.B[j].accent => pout.B[j].k % 4 = 0

\* the clicks of both streams at the first bar boundary after the anchor
\* were emitted with the flag, after clicks inside the bar without it
C21_Witness ==
    /\ poly.aCount = 3 /\ poly.bCount = 4 /\ poly.barMs = LongBarMs
    /\ \E j \in 1..Len(pout.A) : pout.A[j].k = 3 /\ pout.A[j].accent
    /\ \E j \in 1..Len(pout.B) : pout.B[j].k = 4 /\ pout.B[j].accent
    /\ \E j \in 1..Len(pout.A) : pout.A[j].k = 2 /\ ~pout.A[j].accent

C23_OncePerCompletedHold ==
    /\ 0 <= mic.heldMsRef /\ mic.heldMsRef < HoldUs
    /\ (frame.processed /\ frame.onCorrect) => (frame.after = 0 /\ frame.acc >= HoldUs)

\* a second hold of the session was completed
C23_Witness ==
    /\ frame.processed /\ frame.onCorrect
    /\ frame.corrects = 2

\* C24: detectPitchHzYIN returns null for every buffer whose RMS is below
\* the noise floor 0.006, in particular for the all-zero buffer, whatever
\* minHz, maxHz and threshold are.
C24_SilenceGivesNull ==
    (/\ yin.out.kind # "pending"
     /\ Len(BufOf(yin.in.buf)) > 0
     /\ SumSq(BufOf(yin.in.buf), Len(BufOf(yin.in.buf))) < 36 * Len(BufOf(yin.in.buf)))
        => yin.out.kind = "null"

\* a quiet periodic buffer was rejected on a call whose bounds admit its
\* period
C24_Witness ==
    /\ yin.in.buf = "quietAlt"
    /\ yin.in.minHz = 30 /\ yin.in.maxHz = 24000 /\ yin.in.th = 12
    /\ yin.out.kind = "null"

\* C25: detectPitchHzYIN never throws and never returns NaN or an infinite
\* value: for every buffer and every minHz, maxHz and threshold it returns
\* null or a finite number.
C25_NullOrFinite ==
    yin.out.kind \in {"pending", "null", "hz"}

\* C26: every output of a smoother lies between its previous output and the
\* current raw input (inclusive), and a fresh smoother returns its first
\* input unchanged; so a constant input is returned unchanged on every frame.
C26_OutputBetweenPreviousAndInput ==
    smooth.n > 0 =>
        LET l == smooth.last
            Between(y, a, b) == (a <= y /\ y <= b) \/ (b <= y /\ y <= a)
        IN /\ l.euroPrev = None => l.euroOut = l.x
           /\ l.euroPrev # None => Between(l.euroOut, l.euroPrev, l.x)
           /\ l.expPrev = None => l.expOut = l.x
           /\ l.expPrev # None => Between(l.expOut, l.expPrev, l.x)

\* both smoothers moved strictly part of the way from their previous output
\* to a different input
C26_Witness ==
    /\ smooth.n > 1
    /\ smooth.last.euroPrev # None /\ smooth.last.expPrev # None
    /\ smooth.last.euroOut \notin {smooth.last.euroPrev, smooth.last.x}
    /\ smooth.last.expOut \notin {smooth.last.expPrev, smooth.last.x}

\* C27: a metronome with a period of 0.5 s that has been running for 10 s of
\* audio time, its scheduler ticking every 25 ms, has emitted 20 +/- 1 clicks.
C27_TwentyClicksInTenSeconds ==
    (tile = "metrobar" /\ metronome.running
        /\ now - sink["metronome"].startNow = LongRunMs)
    => sink["metronome"].count \in 19..21

\* the run has lasted 10 s and clicks were emitted throughout
C27_Witness ==
    /\ tile = "metrobar" /\ metronome.running
    /\ now - sink["metronome"].startNow = LongRunMs
    /\ sink["metronome"].count >= 19
    /\ sink["metronome"].runLast > now - MetroSpb(metronome)

\* C29: every frame is compared against the targetPc the caller currently
\* supplies: after targetPc changes without a change of enabled or suspend,
\* the frames that follow are judged against the new targetPc
C29_FrameUsesCurrentTarget ==
    [][(frame'.count = frame.count + 1 /\ frame'.valid) => frame'.pc = mic.targetPc]_vars

\* C30: the global sync record is consistent after every operation on any
\* metronome instance: the anchor is null exactly when ownerId is null and
\* exactly when barLen is 0, and a set ownerId names a running instance whose
\* bar length (that of the beats it is scheduling) equals barLen
C30_SyncRecordConsistent ==
    /\ (sync.anchor = None) <=> (sync.ownerId = NoOwner)
    /\ (sync.ownerId = NoOwner) <=> (sync.barLen = 0)
    /\ sync.ownerId # NoOwner =>
            /\ sync.ownerId \in Inst
            /\ metro[sync.ownerId].running
            /\ sync.barLen = metro[sync.ownerId].tickSpb * metro[sync.ownerId].tickNum

\* the owner has changed its timing while running next to another running
\* instance, and the record carries its new bar length
C30_Witness ==
    /\ sync.ownerId # NoOwner
    /\ \A i \in Inst : metro[i].running
    /\ obs[sync.ownerId].restart
    /\ sync.barLen # MetroSpb(MetroInit) * MetroInit.sig.num

----------------------------------------------------------------------------
(* Claims about overlapping starts, edited timing and the clave pattern *)

\* C31: for every interleaving of enabled / suspend changes with the
\* completion of start(), one MicAnswer has at most one detection loop
\* running and at most one microphone stream open
C31_OneLoopOneStream ==
    /\ Cardinality(mic.loops) <= 1
    /\ Cardinality(mic.streams) <= 1

\* C32: whenever a metronome is running, the clicks it schedules are spaced
\* by the seconds-per-beat of the tempo and time signature currently set,
\* after any sequence of edits and of starts and stops by button or Space key
C32_SpacingIsCurrentSpb ==
    metronome.running =>
        LET o == sink["metronome"] IN
        /\ metronome.tickSpb = MetroSpb(metronome)
        /\ (o.batch # <<>> /\ o.batchPrev # None) =>
                o.batch[1].t - o.batchPrev = MetroSpb(metronome)
        /\ \A k \in 1..(Len(o.batch) - 1) :
                o.batch[k + 1].t - o.batch[k].t = MetroSpb(metronome)

\* C33: in every scheduleAhead call, each pulse scheduled gets the metronome
\* tick, and gets a clave hit exactly when its step is switched on at the
\* time the pulse is scheduled (so a toggle or a preset loaded while running
\* changes the hits of the pulses scheduled afterwards).
C33_HitIffStepOn ==
    \A k \in 1..Len(clave.hits) :
        clave.hits[k].tick /\ (clave.hits[k].hit <=> clave.hits[k].on)

\* the events of a stream with n events per bar that lie between the late
\* tolerance and the look-ahead horizon of one tick
PolyWindowEvents(n, bar) == CeilDiv((LateToleranceMs + ScheduleAheadPolyMs) * n, bar) + 1

\* C34: however long the polyrhythm runs, nextIndexA and nextIndexB stay
\* bounded: rolled over modulo the events per bar, an index stays below two
\* bars' worth of events plus the events inside one scheduling window.
C34_IndicesBounded ==
    /\ poly.nextIndexARef <= 2 * poly.aCount + PolyWindowEvents(poly.aCount, poly.barMs)
    /\ poly.nextIndexBRef <= 2 * poly.bCount + PolyWindowEvents(poly.bCount, poly.barMs)

\* C35: an emitted event carries the coincidence flag only if the other
\* stream has an event at exactly the same time: event k of a stream with n
\* events per bar is at anchor + k * bar / n, which is a time of the stream
\* with m events per bar exactly when k * m is a multiple of n.
C35_AccentOnlySimultaneous ==
    /\ \A j \in 1..Len(pout.A) :
            pout.A[j].accent => (pout.A[j].k * poly.bCount) % poly.aCount = 0
    /\ \A j \in 1..Len(pout.B) :
            pout.B[j].accent => (pout.B[j].k * poly.aCount) % poly.bCount = 0

\* the clicks of the latest batch of a run are clicks number k = 0, 1, 2, ...
\* of the run and carry the index k mod cycle; index 0 falls on the first
\* click's time + n * cycle * period and on no other time
IndexCountsClicks(o, period, cycle) ==
    \A j \in 1..Len(o.batch) :
        LET k == o.count - Len(o.batch) + j - 1 IN
        /\ o.batch[j].idx \in 0..(cycle - 1)
        /\ o.batch[j].idx = k % cycle
        /\ (o.batch[j].idx = 0) <=>
                ((o.batch[j].t - o.runFirst[1].t) % (cycle * period) = 0)

\* C36: the k-th click after a start carries the beat index k mod
\* beatsPerBar (the pulse index k mod 12 in the clave): index 0 is emitted
\* exactly every beatsPerBar clicks, at start time + n * bar length, and the
\* index lies in 0..beatsPerBar-1.
C36_IndexIsClickCountModBeats ==
    /\ metronome.running =>
            IndexCountsClicks(sink["metronome"], MetroSpb(metronome), metronome.sig.num)
    /\ clave.running =>
            IndexCountsClicks(sink["clave"], ClaveSpp(clave), PulsesPerBar)

----------------------------------------------------------------------------
(* Claims about the frame interval, the reference note and the lag choice *)

\* C37: the frame interval used for smoothing and for the hold is at most
\* 150 ms whatever the gap between two frames: heldMs grows by at most 150 ms
\* per frame, and a hold longer than 150 ms is never completed by one frame
\* alone (a frame that found heldMs at 0).
C37_DtClampedToCeiling ==
    frame.processed =>
        /\ frame.dt <= DtCeilMs * 1000
        /\ frame.after - frame.before <= DtCeilMs * 1000
        /\ (frame.onCorrect /\ HoldUs > DtCeilMs * 1000) => frame.before > 0

\* a frame that came 200 ms after the previous one counted 150 ms towards
\* the hold
C37_Witness ==
    /\ frame.processed /\ frame.inRange /\ frame.count >= 2
    /\ frame.dt = DtCeilMs * 1000
    /\ frame.after = frame.before + DtCeilMs * 1000

\* C38: the reference note chosen for a smoothed pitch and a target pitch
\* class is congruent to the target modulo 12 and is the octave instance
\* nearest to the pitch, so the signed offset lies in [-600, +600) cents.
C38_ReferenceIsNearestOctaveInstance ==
    frame.candidateMidi # None =>
        /\ (frame.candidateMidi - 100 * frame.pc) % 1200 = 0
        /\ frame.centsRaw = frame.midiFloat - frame.candidateMidi
        /\ \A j \in -3..3 :
                Abs(frame.midiFloat - frame.candidateMidi)
                    <= Abs(frame.midiFloat - (frame.candidateMidi + 1200 * j))
        /\ -600 <= frame.centsRaw /\ frame.centsRaw < 600

\* a pitch exactly half an octave from the instances of the target on
\* either side was referred to the upper one
C38_Witness ==
    /\ frame.candidateMidi # None
    /\ frame.centsRaw = -600
    /\ frame.candidateMidi = frame.midiFloat + 600

\* cmnd[u] < threshold, the threshold of the call in hundredths
BelowThreshold(u) ==
    yin.scan.cmnd[u] # None /\ yin.scan.cmnd[u] * 100 < yin.in.th * CmOne

\* C39: the lag chosen is reached from the smallest lag t >= minTau with
\* cmnd[t] < threshold by advancing while the next value is strictly
\* smaller: cmnd[tau] < threshold, tau = maxTau or cmnd[tau+1] >= cmnd[tau],
\* and no lag from minTau up to the first crossing is below the threshold;
\* when no lag is below the threshold the result is null.
C39_FirstCrossingThenDescend ==
    yin.scan.scanned =>
        LET s == yin.scan IN
        IF \E u \in s.lags : BelowThreshold(u)
        THEN /\ s.tau \in s.lags
             /\ BelowThreshold(s.tau)
             /\ \/ s.tau = s.maxTau
                \/ (s.cmnd[s.tau + 1] # None /\ s.cmnd[s.tau + 1] >= s.cmnd[s.tau])
             /\ \E t \in s.lags :
                    /\ t <= s.tau /\ BelowThreshold(t)
                    /\ \A u \in s.lags : u < t => ~BelowThreshold(u)
                    /\ \A u \in t..(s.tau - 1) : CmLess(s.cmnd[u + 1], s.cmnd[u])
        ELSE s.tau = -1 /\ yin.out.kind = "null"

\* a scan that passed lags above the threshold, crossed it and walked on to
\* a lower lag value before it stopped short of maxTau
C39_Witness ==
    /\ yin.scan.scanned /\ yin.scan.tau \in yin.scan.lags
    /\ yin.scan.tau < yin.scan.maxTau
    /\ \E t \in yin.scan.lags :
            /\ t < yin.scan.tau /\ BelowThreshold(t)
            /\ \E u \in yin.scan.lags : u < t /\ ~BelowThreshold(u)

====
